---- MODULE Spec2Model ----
(***************************************************************************)
(* FSX on-screen menu (fs42/osd/fsx_menu.py): the MenuWindow state machine, *)
(* its preview and background-audio helper processes, the schedule store   *)
(* queries and the requests it sends to the upstream player.               *)
(***************************************************************************)
EXTENDS Integers, Sequences, FiniteSets, TLC

(***************************************************************************)
(* Bounds of the model                                                     *)
(***************************************************************************)
\* the instant of the wall clock (seconds, int(time.time())) the menu runs at
ClockNow == 2
\* longest run of consecutive root navigation steps that is counted
MaxRun == 5

(***************************************************************************)
(* Program constants                                                       *)
(***************************************************************************)
MENU_ITEMS == <<"Live TV", "TV Guide", "Planner", "OnDemand">>
GUIDE_MAX_ROWS == 8

\* Python's None for an optional value: the empty tuple; a present value v is <<v>>
None == <<>>

ItemCount == Len(MENU_ITEMS)

Max2(a, b) == IF a >= b THEN a ELSE b
Min2(a, b) == IF a <= b THEN a ELSE b

(***************************************************************************)
(* The schedule store (table schedule_events) and the media files on disk  *)
(***************************************************************************)
Row(ch, st, en, p, t) ==
    [channel_id |-> ch, start_utc |-> st, end_utc |-> en, path |-> p, title |-> t]

\* the rows of the store the menu runs against
SchedRows ==
    { Row("1", 0, 5, "a.mp4", "A"),
      Row("1", 5, 9, "b.mp4", ""),
      Row("2", 1, 9, "c.mp4", "C") }

\* a store with more channels than the guide shows at once (GUIDE_MAX_ROWS):
\* channel 1 and channels 6 to 10 name a media file that is missing, the only
\* row of channel 2 starts later, the current row of channel 3 has an empty
\* path, channels 4 and 5 are playable
GuideRows ==
    { Row("1", 0, 9, "x.mp4", "X"),
      Row("2", 5, 9, "b.mp4", "B"),
      Row("3", 0, 9, "", "E"),
      Row("4", 0, 9, "a.mp4", "A"),
      Row("5", 1, 9, "c.mp4", "C") }
    \cup { Row(c, 0, 9, "x.mp4", "X") : c \in {"6", "7", "8", "9", "10"} }

\* the media files that exist (Path(path).exists())
MediaFiles == {"a.mp4", "b.mp4", "c.mp4"}

\* CAST(channel_id AS INTEGER)
CastInteger(ch) ==
    CASE ch = "1" -> 1
      [] ch = "2" -> 2
      [] ch = "3" -> 3
      [] ch = "4" -> 4
      [] ch = "5" -> 5
      [] ch = "6" -> 6
      [] ch = "7" -> 7
      [] ch = "8" -> 8
      [] ch = "9" -> 9
      [] ch = "10" -> 10
      [] OTHER -> 0

\* a set of rows as a sequence, ORDER BY start_utc ASC
RECURSIVE OrderByStartAsc(_)
OrderByStartAsc(S) ==
    IF S = {} THEN <<>>
    ELSE LET r == CHOOSE x \in S : \A y \in S : x.start_utc <= y.start_utc
         IN  <<r>> \o OrderByStartAsc(S \ {r})

\* the distinct channel ids, ORDER BY CAST(channel_id AS INTEGER) ASC
RECURSIVE OrderChannels(_)
OrderChannels(C) ==
    IF C = {} THEN <<>>
    ELSE LET c == CHOOSE x \in C : \A y \in C : CastInteger(x) <= CastInteger(y)
         IN  <<c>> \o OrderChannels(C \ {c})

Limit(seq, n) == SubSeq(seq, 1, Min2(n, Len(seq)))

\* the query of resolve_now_path_and_offset with end_utc >= now for end_utc > now
CurrentRow_end_inclusive(rows, ch, now_ts) ==
    LET Q == { r \in rows : r.channel_id = ch /\ r.start_utc <= now_ts /\ r.end_utc >= now_ts }
    IN  IF Q = {} THEN None
        ELSE << CHOOSE r \in Q : \A q \in Q : q.start_utc <= r.start_utc >>

\* the row of the query of resolve_now_path_and_offset: start_utc <= now < end_utc,
\* ORDER BY start_utc DESC LIMIT 1 (None when no row qualifies)
CurrentRow(rows, ch, now_ts) ==
    LET Q == { r \in rows : r.channel_id = ch /\ r.start_utc <= now_ts /\ r.end_utc > now_ts }
    IN  IF Q = {} THEN None
        ELSE << CHOOSE r \in Q : \A q \in Q : q.start_utc <= r.start_utc >>

\* resolve_now_path_and_offset that seeks from the end of the event
resolve_now_path_and_offset_from_end(rows, db_ok, ch_id, now_ts) ==
    IF ~db_ok THEN None
    ELSE LET row == CurrentRow(rows, ch_id, now_ts)
         IN  IF row = None THEN None
             ELSE IF row[1].path = "" THEN None
             ELSE <<row[1].path, Max2(0, row[1].end_utc - now_ts)>>

\* resolve_now_path_and_offset: <<path, offset>> of the channel's current event, or
\* None (store absent or failing, no current row, empty path)
resolve_now_path_and_offset(rows, db_ok, ch_id, now_ts) ==
    IF ~db_ok THEN None
    ELSE LET row == CurrentRow(rows, ch_id, now_ts)
         IN  IF row = None THEN None
             ELSE IF row[1].path = "" THEN None
             ELSE <<row[1].path, Max2(0, now_ts - row[1].start_utc)>>

\* the second query of schedule_now_next, skipping rows titled like a current row
NextRow_deduplicated(rows, cid, now_ts) ==
    LET C == { r \in rows : r.channel_id = cid /\ r.start_utc <= now_ts
                            /\ r.end_utc > now_ts }
        Q == { r \in rows : r.channel_id = cid /\ r.start_utc > now_ts
                            /\ \A c \in C : c.title # r.title }
    IN  IF Q = {} THEN None
        ELSE << CHOOSE r \in Q : \A q \in Q : r.start_utc <= q.start_utc >>

\* the second query of the overlay's schedule_now_next: start_utc > now,
\* ORDER BY start_utc ASC LIMIT 1, whatever the title (None when no row qualifies)
NextRow(rows, cid, now_ts) ==
    LET Q == { r \in rows : r.channel_id = cid /\ r.start_utc > now_ts }
    IN  IF Q = {} THEN None
        ELSE << CHOOSE r \in Q : \A q \in Q : r.start_utc <= q.start_utc >>

\* the overlay's schedule_now_next: <<now_row, next_row>>; its first query is
\* start_utc <= now < end_utc, ORDER BY start_utc DESC LIMIT 1
schedule_now_next(rows, cid, now_ts) ==
    LET Q       == { r \in rows : r.channel_id = cid /\ r.start_utc <= now_ts
                                  /\ r.end_utc > now_ts }
        now_row == IF Q = {} THEN None
                   ELSE << CHOOSE r \in Q : \A q \in Q : r.start_utc >= q.start_utc >>
    IN  << now_row, NextRow(rows, cid, now_ts) >>

\* _safe_title_from_path on the paths of the store: the stem of the file name
_safe_title_from_path(path) ==
    CASE path = "a.mp4" -> "a"
      [] path = "b.mp4" -> "b"
      [] path = "c.mp4" -> "c"
      [] OTHER -> path

\* one event of a guide row: end clamped to start + 60, title with its fallbacks
GuideEvent(r) ==
    LET end_  == IF r.end_utc <= r.start_utc THEN r.start_utc + 60 ELSE r.end_utc
        t1    == IF r.title # "" THEN r.title ELSE _safe_title_from_path(r.path)
        title == IF t1 # "" THEN t1 ELSE "-"
    IN  [title |-> title, start |-> r.start_utc, end |-> end_]

\* the events of one channel without the placeholder
ChannelEvents_no_placeholder(rows, ch, now_ts) ==
    LET Q  == { r \in rows : r.channel_id = ch /\ r.end_utc > now_ts }
        ev == Limit(OrderByStartAsc(Q), 6)
    IN  [i \in 1..Len(ev) |-> GuideEvent(ev[i])]

\* the events of one channel: end_utc > now, ORDER BY start_utc ASC LIMIT 6, or
\* the single placeholder [now, now + 3600)
ChannelEvents(rows, ch, now_ts) ==
    LET Q  == { r \in rows : r.channel_id = ch /\ r.end_utc > now_ts }
        ev == Limit(OrderByStartAsc(Q), 6)
    IN  IF ev = <<>>
        THEN << [title |-> "-", start |-> now_ts, end |-> now_ts + 3600] >>
        ELSE [i \in 1..Len(ev) |-> GuideEvent(ev[i])]

\* the schema of the store has no channel_name column: the name is synthesised
ChannelName(ch) == "Channel " \o ch

\* load_channels_and_events: the guide snapshot at now_ts (empty when the store is
\* absent; a failing store raises and _enter_guide_mode turns that into empty)
load_channels_and_events(rows, db_ok, now_ts) ==
    IF ~db_ok THEN <<>>
    ELSE LET chans == OrderChannels({ r.channel_id : r \in rows })
         IN  [i \in 1..Len(chans) |->
                [id |-> chans[i], name |-> ChannelName(chans[i]),
                 events |-> ChannelEvents(rows, chans[i], now_ts)]]

(***************************************************************************)
(* State                                                                   *)
(***************************************************************************)
VARIABLES
    visible,        \* MenuWindow.isVisible()
    mode,           \* MenuWindow.mode: "root" | "guide"
    sel,            \* MenuWindow.sel, index into MENU_ITEMS (0-based)
    sel_last,       \* MenuWindow.sel_last
    guide_rows,     \* MenuWindow.guide_rows, the frozen guide snapshot
    g_sel_row,      \* MenuWindow.g_sel_row
    g_sel_col,      \* MenuWindow.g_sel_col
    g_row_offset,   \* MenuWindow.g_row_offset
    preview_proc,   \* PreviewWidget.proc: None or <<process>>
    audio_proc,     \* MenuAudio.proc: None or <<process>>
    footer,         \* PiPFooter: shown, ch_num, ch_name
    orphans,        \* live helper processes that no handle refers to, per kind
    db,             \* the rows of the schedule store
    now,            \* the wall clock, int(time.time())
    cmd,            \* the command being answered ("idle": none)
    resp,           \* the answer to it
    log,            \* what it sent to the helper processes and to the player, and the
                    \* accesses to the store that failed, in order
    pre,            \* the state it started from
    run,            \* the run of root navigation steps it continues
    toggles,        \* the run of toggle commands it continues
    closedSel,      \* the root cursor when the menu was last hidden (0 while it shows)
    query,          \* the answers of the store's current-event and next-event queries
    thr,            \* the commands the transport worker and the UI thread are in the
                    \* middle of, statement by statement
    ipc_muted,      \* the last message of the menu over the player's IPC socket
                    \* paused and muted it (mpv_pause_on), none has undone it since
    ov              \* the overlay (FSXOverlay): what it shows and its hide timer

vars == << visible, mode, sel, sel_last, guide_rows, g_sel_row, g_sel_col,
           g_row_offset, preview_proc, audio_proc, footer, orphans, db, now,
           cmd, resp, log, pre, run, toggles, closedSel, query, thr, ipc_muted, ov >>

\* a running helper process, as the handle that owns it sees it
Proc(path, off) == [path |-> path, off |-> off, alive |-> TRUE]

\* proc is not None and proc.poll() is None
IsLive(h) == h # None /\ h[1].alive

\* one thing a command did: a request to the player (n: the status code of the
\* answer, 0 for none; v: the channel a status answer names), an IPC message
\* (n: the value set) or a process operation (a: the path, n: the start offset)
Ev(op, a, n, v) == [op |-> op, a |-> a, n |-> n, v |-> v]

\* the status codes of http_post's answer: 200, or none (refused, timed out, error)
PostCodes == {200, 0}

Emit(s, ev) == [s EXCEPT !.log = Append(@, ev)]

\* the answers of the upstream player's GET /status (None: no answer)
StatusVals ==
    { None, << [channel |-> "1", name |-> ""] >> }

Resp(code, ok, info) == [code |-> code, ok |-> ok, info |-> info]

\* the program state a handler works on, with the empty record of what it did
Cur ==
    [ visible |-> visible, mode |-> mode, sel |-> sel, sel_last |-> sel_last,
      guide_rows |-> guide_rows, g_sel_row |-> g_sel_row, g_sel_col |-> g_sel_col,
      g_row_offset |-> g_row_offset, preview_proc |-> preview_proc,
      audio_proc |-> audio_proc, footer |-> footer, orphans |-> orphans,
      db |-> db, now |-> now, log |-> <<>>, resp |-> Resp(0, TRUE, ""),
      ipc_muted |-> ipc_muted ]

(***************************************************************************)
(* mpv IPC helpers and the playback control of the upstream player         *)
(***************************************************************************)
mpv_pause_on(s) ==
    [Emit(Emit(s, Ev("ipc", "pause", 1, "")), Ev("ipc", "mute", 1, ""))
       EXCEPT !.ipc_muted = TRUE]

mpv_pause_off(s) ==
    [Emit(Emit(s, Ev("ipc", "pause", 0, "")), Ev("ipc", "mute", 0, ""))
       EXCEPT !.ipc_muted = FALSE]

\* http_post(url): the request, with the status code of its answer
Post(s, url, code) == Emit(s, Ev("POST", url, code, ""))

\* http_get_json(/status): the request, with the answer (None: no answer)
GetStatus(s, st) ==
    Emit(s, Ev("GET", "/status", IF st = None THEN 0 ELSE 200,
               IF st = None THEN "" ELSE st[1].channel))

ZapUrl(ch) == "/zap/" \o ch

\* _pause_playback without the IPC fallback
_pause_playback_no_fallback(s) == { Post(s, "/pause", code) : code \in PostCodes }

\* POST /pause; the IPC fallback unless it answered 200
_pause_playback(s) ==
    { IF code = 200 THEN Post(s, "/pause", code) ELSE mpv_pause_on(Post(s, "/pause", code))
      : code \in PostCodes }

\* _return_to_live that goes to the local unpause as soon as POST /live fails
_return_to_live_no_retune(s) ==
    { IF code = 200 THEN Post(s, "/live", code) ELSE mpv_pause_off(Post(s, "/live", code))
      : code \in PostCodes }

\* _return_to_live without the return after a successful POST /live
_return_to_live_falls_through(s) ==
    UNION { UNION { LET s2 == GetStatus(Post(s, "/live", code), st)
                    IN  IF st # None /\ st[1].channel # ""
                        THEN { mpv_pause_off(Post(s2, ZapUrl(st[1].channel), code2))
                               : code2 \in PostCodes }
                        ELSE { mpv_pause_off(s2) }
                    : st \in StatusVals }
            : code \in PostCodes }

\* POST /live; unless it answered 200: GET /status, POST /zap/<channel> when the
\* status names one, and the IPC unpause
_return_to_live(s) ==
    UNION { IF code = 200 THEN { Post(s, "/live", code) }
            ELSE UNION { LET s2 == GetStatus(Post(s, "/live", code), st)
                         IN  IF st # None /\ st[1].channel # ""
                             THEN { mpv_pause_off(Post(s2, ZapUrl(st[1].channel), code2))
                                    : code2 \in PostCodes }
                             ELSE { mpv_pause_off(s2) }
                         : st \in StatusVals }
            : code \in PostCodes }

(***************************************************************************)
(* PreviewWidget and MenuAudio: one helper process each                    *)
(***************************************************************************)
\* self.proc = h on the preview handle; a live process that loses its last
\* reference keeps running unowned
AssignPreview(s, h) ==
    [s EXCEPT !.preview_proc = h,
              !.orphans = IF IsLive(s.preview_proc)
                          THEN [@ EXCEPT !.preview = @ + 1] ELSE @]

AssignAudio(s, h) ==
    [s EXCEPT !.audio_proc = h,
              !.orphans = IF IsLive(s.audio_proc)
                          THEN [@ EXCEPT !.audio = @ + 1] ELSE @]

\* the process of a handle has exited
Exited(h) == << [h[1] EXCEPT !.alive = FALSE] >>

\* PreviewWidget.stop_preview without the kill after the wait
stop_preview_never_kills(s) ==
    IF IsLive(s.preview_proc)
    THEN { AssignPreview([Emit(s, Ev("terminate", "preview", 0, ""))
                            EXCEPT !.preview_proc = Exited(@)], None) }
    ELSE { AssignPreview(s, None) }

\* PreviewWidget.stop_preview that only forgets the process
stop_preview_forgets(s) == { AssignPreview(s, None) }

\* PreviewWidget.stop_preview: terminate, wait, kill on timeout; proc = None
stop_preview(s) ==
    IF IsLive(s.preview_proc)
    THEN LET t == Emit(s, Ev("terminate", "preview", 0, ""))
             k == Emit(t, Ev("kill", "preview", 0, ""))
         IN  { AssignPreview([x EXCEPT !.preview_proc = Exited(@)], None) : x \in {t, k} }
    ELSE { AssignPreview(s, None) }

\* subprocess.Popen raised for the process of handle what: the log keeps it
PopenFailed(s, what) == Emit(s, Ev("popen_error", what, 0, ""))

\* PreviewWidget.start_preview without its first statement
start_preview_nostop(s, path, start_sec) ==
    { AssignPreview(Emit(s, Ev("spawn_preview", path, Max2(0, start_sec), "")),
                    << Proc(path, Max2(0, start_sec)) >>),
      AssignPreview(PopenFailed(s, "preview"), None) }

\* PreviewWidget.start_preview that tries Popen before it stops the old process
\* and keeps the old process when Popen raises
start_preview_keeps_old(s, path, start_sec) ==
    { PopenFailed(s, "preview") } \cup
    { AssignPreview(Emit(x, Ev("spawn_preview", path, Max2(0, start_sec), "")),
                    << Proc(path, Max2(0, start_sec)) >>) : x \in stop_preview(s) }

\* PreviewWidget.start_preview: stop, then Popen (proc = None when it raises)
start_preview(s, path, start_sec) ==
    UNION { { AssignPreview(Emit(x, Ev("spawn_preview", path, Max2(0, start_sec), "")),
                            << Proc(path, Max2(0, start_sec)) >>),
              AssignPreview(PopenFailed(x, "preview"), None) } : x \in stop_preview(s) }

\* MenuAudio.stop that only forgets the process
menu_audio_stop_forgets(s) == { AssignAudio(s, None) }

\* MenuAudio.stop
menu_audio_stop(s) ==
    IF IsLive(s.audio_proc)
    THEN LET t == Emit(s, Ev("terminate", "audio", 0, ""))
             k == Emit(t, Ev("kill", "audio", 0, ""))
         IN  { AssignAudio([x EXCEPT !.audio_proc = Exited(@)], None) : x \in {t, k} }
    ELSE { AssignAudio(s, None) }

\* MenuAudio.start: nothing when the track is missing; else stop, then Popen
menu_audio_start(s) ==
    {s} \cup
    UNION { { AssignAudio(Emit(x, Ev("spawn_audio", "audio", 0, "")), << Proc("audio", 0) >>),
              AssignAudio(PopenFailed(x, "audio"), None) } : x \in menu_audio_stop(s) }

(***************************************************************************)
(* PiPFooter                                                               *)
(***************************************************************************)
footer_set_info(s, ch_num, ch_name) ==
    [s EXCEPT !.footer = [shown |-> (ch_num # "" \/ ch_name # ""),
                          ch_num |-> ch_num, ch_name |-> ch_name]]

footer_show(s) == [s EXCEPT !.footer.shown = TRUE]

footer_hide(s) == [s EXCEPT !.footer.shown = FALSE]

(***************************************************************************)
(* MenuWindow                                                              *)
(***************************************************************************)
\* MenuWindow.close_menu without the preview stop
close_menu_keeps_preview(s) ==
    UNION { _return_to_live([footer_hide(a) EXCEPT !.visible = FALSE])
            : a \in menu_audio_stop(s) }

\* MenuWindow.close_menu: stop audio, stop preview, hide, return to live
close_menu(s) ==
    UNION { UNION { _return_to_live([footer_hide(b) EXCEPT !.visible = FALSE])
                    : b \in stop_preview(a) }
            : a \in menu_audio_stop(s) }

\* an access to the schedule store on behalf of what (a channel, or the guide):
\* the log keeps the accesses that failed (store absent, connection or query
\* raising)
StoreAccess(s, what, db_ok) ==
    IF db_ok THEN s ELSE Emit(s, Ev("store", what, 0, ""))

\* the tail of _start_preview_from_status and _start_preview_from_channel:
\* resolve the channel's current path and offset (the store may be absent or
\* failing), return unless the media file exists, start the preview
StartPreviewOn(s, ch_id) ==
    UNION { LET pair == resolve_now_path_and_offset(s.db, db_ok, ch_id, s.now)
                s1   == StoreAccess(s, ch_id, db_ok)
            IN  IF pair = None THEN {s1}
                ELSE IF pair[1] \notin MediaFiles THEN {s1}
                ELSE start_preview(s1, pair[1], pair[2])
            : db_ok \in BOOLEAN }

\* MenuWindow._start_preview_from_status
_start_preview_from_status(s) ==
    UNION { IF st = None THEN { GetStatus(s, st) }
            ELSE IF st[1].channel = "" THEN { GetStatus(s, st) }
            ELSE StartPreviewOn(GetStatus(s, st), st[1].channel)
            : st \in StatusVals }

\* MenuWindow._start_preview_from_channel
_start_preview_from_channel(s, ch_id) == StartPreviewOn(s, ch_id)

\* MenuWindow._update_pip_footer_from_status
_update_pip_footer_from_status(s) ==
    { LET ch_num  == IF st = None THEN "" ELSE st[1].channel
          name0   == IF st = None THEN "" ELSE st[1].name
          ch_name == IF name0 = "" /\ ch_num # "" THEN "Channel " \o ch_num ELSE name0
      IN  footer_show(footer_set_info(GetStatus(s, st), ch_num, ch_name))
      : st \in StatusVals }

\* MenuWindow.open_menu with the cursor reset instead of restored
open_menu_resets_cursor(s) ==
    LET A == _pause_playback([s EXCEPT !.visible = TRUE])
        B == UNION { _start_preview_from_status(x) : x \in A }
        C == UNION { _update_pip_footer_from_status(x) : x \in B }
        D == UNION { menu_audio_start(x) : x \in C }
    IN  { [x EXCEPT !.mode = "root", !.sel = 0] : x \in D }

\* MenuWindow.open_menu without the reset of the mode
open_menu_keeps_mode(s) ==
    LET A == _pause_playback([s EXCEPT !.visible = TRUE])
        B == UNION { _start_preview_from_status(x) : x \in A }
        C == UNION { _update_pip_footer_from_status(x) : x \in B }
        D == UNION { menu_audio_start(x) : x \in C }
    IN  { [x EXCEPT !.sel = x.sel_last] : x \in D }

\* MenuWindow.open_menu
open_menu(s) ==
    LET A == _pause_playback([s EXCEPT !.visible = TRUE])
        B == UNION { _start_preview_from_status(x) : x \in A }
        C == UNION { _update_pip_footer_from_status(x) : x \in B }
        D == UNION { menu_audio_start(x) : x \in C }
    IN  { [x EXCEPT !.mode = "root", !.sel = x.sel_last] : x \in D }

\* MenuWindow.nav_up without the modulo
nav_up_unwrapped(s) ==
    IF s.mode # "root" THEN s
    ELSE [s EXCEPT !.sel = s.sel - 1, !.sel_last = s.sel - 1]

\* MenuWindow.nav_up
nav_up(s) ==
    IF s.mode # "root" THEN s
    ELSE LET n == (s.sel - 1) % ItemCount
         IN  [s EXCEPT !.sel = n, !.sel_last = n]

\* MenuWindow.nav_down that stops at the last item
nav_down_no_wrap(s) ==
    IF s.mode # "root" THEN s
    ELSE LET n == Min2(s.sel + 1, ItemCount - 1)
         IN  [s EXCEPT !.sel = n, !.sel_last = n]

\* MenuWindow.nav_down
nav_down(s) ==
    IF s.mode # "root" THEN s
    ELSE LET n == (s.sel + 1) % ItemCount
         IN  [s EXCEPT !.sel = n, !.sel_last = n]

\* MenuWindow._guide_current_channel_id ("" for None)
_guide_current_channel_id(s) ==
    IF s.guide_rows = <<>> THEN ""
    ELSE LET row == Max2(0, Min2(s.g_sel_row, Len(s.guide_rows) - 1))
         IN  s.guide_rows[row + 1].id

\* the re-anchoring at the end of _enter_guide_mode, guide_page_up and
\* guide_page_down: preview and footer on the channel of the selected row
Reanchor(s, show) ==
    LET ch_id == _guide_current_channel_id(s)
    IN  IF ch_id = "" THEN {s}
        ELSE { LET f == footer_set_info(x, ch_id, x.guide_rows[x.g_sel_row + 1].name)
               IN  IF show THEN footer_show(f) ELSE f
               : x \in _start_preview_from_channel(s, ch_id) }

\* MenuWindow._enter_guide_mode without the reset of the three cursors
_enter_guide_mode_keeps_cursor(s) ==
    UNION { Reanchor([StoreAccess(s, "guide", db_ok)
                        EXCEPT !.guide_rows = load_channels_and_events(s.db, db_ok, s.now),
                               !.mode = "guide"], TRUE)
            : db_ok \in BOOLEAN }

\* MenuWindow._enter_guide_mode without the try/except around the load: a
\* failing load ends the handler before it assigns anything
_enter_guide_mode_unguarded(s) ==
    UNION { IF ~db_ok THEN { StoreAccess(s, "guide", db_ok) }
            ELSE Reanchor([s EXCEPT !.guide_rows = load_channels_and_events(s.db, db_ok, s.now),
                                    !.g_sel_row = 0, !.g_sel_col = 0, !.g_row_offset = 0,
                                    !.mode = "guide"], TRUE)
            : db_ok \in BOOLEAN }

\* MenuWindow._enter_guide_mode
_enter_guide_mode(s) ==
    UNION { Reanchor([StoreAccess(s, "guide", db_ok)
                        EXCEPT !.guide_rows = load_channels_and_events(s.db, db_ok, s.now),
                               !.g_sel_row = 0, !.g_sel_col = 0, !.g_row_offset = 0,
                               !.mode = "guide"], TRUE)
            : db_ok \in BOOLEAN }

\* MenuWindow.guide_left
guide_left(s) ==
    IF s.mode # "guide" THEN {s}
    ELSE { [s EXCEPT !.g_sel_col = Max2(0, s.g_sel_col - 1)] }

\* MenuWindow.guide_right that also restarts the preview of the row
guide_right_restarts_preview(s) ==
    IF s.mode # "guide" THEN {s}
    ELSE IF s.guide_rows = <<>> THEN {s}
    ELSE LET max_col == Max2(0, Len(s.guide_rows[s.g_sel_row + 1].events) - 1)
         IN  _start_preview_from_channel(
                 [s EXCEPT !.g_sel_col = Min2(max_col, s.g_sel_col + 1)],
                 s.guide_rows[s.g_sel_row + 1].id)

\* MenuWindow.guide_right
guide_right(s) ==
    IF s.mode # "guide" THEN {s}
    ELSE IF s.guide_rows = <<>> THEN {s}
    ELSE LET max_col == Max2(0, Len(s.guide_rows[s.g_sel_row + 1].events) - 1)
         IN  { [s EXCEPT !.g_sel_col = Min2(max_col, s.g_sel_col + 1)] }

\* MenuWindow.guide_page_up
guide_page_up(s) ==
    IF s.mode # "guide" THEN {s}
    ELSE IF s.guide_rows = <<>> THEN {s}
    ELSE LET r  == Max2(0, s.g_sel_row - 1)
             s1 == [s EXCEPT !.g_sel_row = r,
                             !.g_row_offset = IF r < @ THEN r ELSE @]
         IN  Reanchor(s1, FALSE)

\* MenuWindow.guide_page_down without the move of the viewport
guide_page_down_no_scroll(s) ==
    IF s.mode # "guide" THEN {s}
    ELSE IF s.guide_rows = <<>> THEN {s}
    ELSE Reanchor([s EXCEPT !.g_sel_row = Min2(Len(s.guide_rows) - 1, s.g_sel_row + 1)],
                  FALSE)

\* MenuWindow.guide_page_down
guide_page_down(s) ==
    IF s.mode # "guide" THEN {s}
    ELSE IF s.guide_rows = <<>> THEN {s}
    ELSE LET r  == Min2(Len(s.guide_rows) - 1, s.g_sel_row + 1)
             s1 == [s EXCEPT !.g_sel_row = r,
                             !.g_row_offset = IF r >= @ + GUIDE_MAX_ROWS
                                              THEN r - GUIDE_MAX_ROWS + 1 ELSE @]
         IN  Reanchor(s1, FALSE)

\* the guide branch of MenuWindow.nav_enter without the zap
GuideEnterNoZap(s) == close_menu(s)

\* the guide branch of MenuWindow.nav_enter: zap to the selected channel, close
GuideEnter(s) ==
    LET ch_id == _guide_current_channel_id(s)
    IN  IF ch_id # ""
        THEN UNION { close_menu(Post(s, ZapUrl(ch_id), code)) : code \in PostCodes }
        ELSE close_menu(s)

\* MenuWindow.nav_enter with every root item closing the menu
nav_enter_always_closes(s) ==
    IF s.mode = "root" THEN close_menu([s EXCEPT !.sel_last = s.sel])
    ELSE IF s.mode = "guide" THEN GuideEnter(s)
    ELSE {s}

\* MenuWindow.nav_enter
nav_enter(s) ==
    IF s.mode = "root"
    THEN LET s1    == [s EXCEPT !.sel_last = s.sel]
             label == MENU_ITEMS[s.sel + 1]
         IN  CASE label = "Live TV"  -> close_menu(s1)
               [] label = "TV Guide" -> _enter_guide_mode(s1)
               [] label = "OnDemand" -> close_menu(s1)
               [] label = "Planner"  -> close_menu(s1)
               [] OTHER -> {s1}
    ELSE IF s.mode = "guide" THEN GuideEnter(s)
    ELSE {s}

\* int(key) on the keys of the select and activate commands (None: ValueError)
ParseInt(key) ==
    CASE key = "0" -> <<0>>
      [] key = "1" -> <<1>>
      [] key = "2" -> <<2>>
      [] key = "3" -> <<3>>
      [] key = "4" -> <<4>>
      [] key = "-1" -> <<-1>>
      [] OTHER -> None

\* self.items.index(label), 0-based (None: ValueError)
ItemIndex(label) ==
    IF \E i \in 1..ItemCount : MENU_ITEMS[i] = label
    THEN << (CHOOSE i \in 1..ItemCount : MENU_ITEMS[i] = label) - 1 >>
    ELSE None

\* MenuWindow._select_item that matches a label whatever its case
_select_item_any_case(s, key) ==
    LET n   == ParseInt(key)
        idx == IF n # None
               THEN (IF 0 <= n[1] /\ n[1] < ItemCount THEN n ELSE None)
               ELSE ItemIndex(IF key = "tv guide" THEN "TV Guide" ELSE key)
    IN  IF idx = None THEN <<FALSE, s>>
        ELSE <<TRUE, [s EXCEPT !.sel = idx[1], !.sel_last = idx[1]]>>

\* MenuWindow._select_item on the key of a request: by index when int(key)
\* parses, by label otherwise; <<ok, state>>
_select_item(s, key) ==
    LET n   == ParseInt(key)
        idx == IF n # None
               THEN (IF 0 <= n[1] /\ n[1] < ItemCount THEN n ELSE None)
               ELSE ItemIndex(key)
    IN  IF idx = None THEN <<FALSE, s>>
        ELSE <<TRUE, [s EXCEPT !.sel = idx[1], !.sel_last = idx[1]]>>

\* MenuWindow._activate_selection that does not confirm
_activate_selection_skipped(s) == {s}

\* MenuWindow._activate_selection
_activate_selection(s) == nav_enter(s)

(***************************************************************************)
(* The remote-control transport (_Http.do_POST) and the key events         *)
(***************************************************************************)
Answer(S, r) == { [x EXCEPT !.resp = r] : x \in S }

Ok(info) == Resp(200, TRUE, info)

EnterPaths ==
    {"/menu/enter", "/menu/nav/enter", "/menu/key/enter", "/menu/ok", "/menu/select"}

\* the keys of the select and activate requests
SelectKeys == {"1", "4", "-1", "Planner", "TV Guide", "tv guide", ""}

\* the /menu/select/<key> branch of do_POST
DoSelect(s, key) ==
    LET r == _select_item(s, key)
    IN  { [r[2] EXCEPT !.resp = Resp(200, r[1], IF r[1] THEN MENU_ITEMS[r[2].sel + 1] ELSE "")] }

\* the /menu/activate/<key> branch of do_POST
DoActivate(s, key) ==
    LET r == _select_item(s, key)
    IN  IF key # "" /\ ~r[1]
        THEN { [s EXCEPT !.resp = Resp(200, FALSE, "no such item")] }
        ELSE Answer(_activate_selection(IF key # "" THEN r[2] ELSE s), Ok("activated"))

\* _Http.do_POST without the visibility check
do_POST_unchecked(s, path, key) ==
    CASE path = "/menu/open"   -> Answer(open_menu(s), Ok("open"))
      [] path = "/menu/toggle" ->
            IF ~s.visible THEN Answer(open_menu(s), Ok("visible"))
            ELSE Answer(close_menu(s), Ok("hidden"))
      [] path = "/menu/close"  -> Answer(close_menu(s), Ok("close"))
      [] path = "/menu/nav/up"   -> Answer({nav_up(s)}, Ok(""))
      [] path = "/menu/nav/down" -> Answer({nav_down(s)}, Ok(""))
      [] path \in EnterPaths     -> Answer(nav_enter(s), Ok(""))
      [] path = "/menu/esc"      -> Answer(close_menu(s), Ok(""))
      [] path = "/menu/nav/left" ->
            Answer(IF s.mode = "guide" THEN guide_left(s) ELSE {nav_up(s)}, Ok(""))
      [] path = "/menu/nav/right" ->
            Answer(IF s.mode = "guide" THEN guide_right(s) ELSE {nav_down(s)}, Ok(""))
      [] path = "/menu/nav/pageup" ->
            Answer(IF s.mode = "guide" THEN guide_page_up(s) ELSE {nav_up(s)}, Ok(""))
      [] path = "/menu/nav/pagedown" ->
            Answer(IF s.mode = "guide" THEN guide_page_down(s) ELSE {nav_down(s)}, Ok(""))
      [] path = "/menu/guide"     -> Answer(_enter_guide_mode(s), Ok("guide"))
      [] path = "/menu/select/"   -> DoSelect(s, key)
      [] path = "/menu/activate/" -> DoActivate(s, key)
      [] OTHER -> Answer({s}, Resp(404, FALSE, "unknown"))

\* the root-mode Key_PageUp / Key_PageDown branch: the cursor moves by d
PageStep(s, d) ==
    LET n == (s.sel + d) % ItemCount
    IN  [s EXCEPT !.sel = n, !.sel_last = n]

\* _Http.do_POST with the two-item page step of the keys in Root mode
do_POST_page_steps(s, path, key) ==
    CASE path = "/menu/open"   -> Answer(open_menu(s), Ok("open"))
      [] path = "/menu/close"  -> Answer(close_menu(s), Ok("close"))
      [] path = "/menu/toggle" ->
            IF ~s.visible THEN Answer(open_menu(s), Ok("visible"))
            ELSE Answer(close_menu(s), Ok("hidden"))
      [] ~s.visible            -> Answer({s}, Ok("not-visible"))
      [] path = "/menu/nav/up"   -> Answer({nav_up(s)}, Ok(""))
      [] path = "/menu/nav/down" -> Answer({nav_down(s)}, Ok(""))
      [] path \in EnterPaths     -> Answer(nav_enter(s), Ok(""))
      [] path = "/menu/esc"      -> Answer(close_menu(s), Ok(""))
      [] path = "/menu/nav/left" ->
            Answer(IF s.mode = "guide" THEN guide_left(s) ELSE {nav_up(s)}, Ok(""))
      [] path = "/menu/nav/right" ->
            Answer(IF s.mode = "guide" THEN guide_right(s) ELSE {nav_down(s)}, Ok(""))
      [] path = "/menu/nav/pageup" ->
            Answer(IF s.mode = "guide" THEN guide_page_up(s) ELSE {PageStep(s, -2)}, Ok(""))
      [] path = "/menu/nav/pagedown" ->
            Answer(IF s.mode = "guide" THEN guide_page_down(s) ELSE {PageStep(s, 2)}, Ok(""))
      [] path = "/menu/guide"     -> Answer(_enter_guide_mode(s), Ok("guide"))
      [] path = "/menu/select/"   -> DoSelect(s, key)
      [] path = "/menu/activate/" -> DoActivate(s, key)
      [] OTHER -> Answer({s}, Resp(404, FALSE, "unknown"))

\* _Http.do_POST: path is the route, key what follows it in the request path
do_POST(s, path, key) ==
    CASE path = "/menu/open"   -> Answer(open_menu(s), Ok("open"))
      [] path = "/menu/close"  -> Answer(close_menu(s), Ok("close"))
      [] path = "/menu/toggle" ->
            IF ~s.visible THEN Answer(open_menu(s), Ok("visible"))
            ELSE Answer(close_menu(s), Ok("hidden"))
      [] ~s.visible            -> Answer({s}, Ok("not-visible"))
      [] path = "/menu/nav/up"   -> Answer({nav_up(s)}, Ok(""))
      [] path = "/menu/nav/down" -> Answer({nav_down(s)}, Ok(""))
      [] path \in EnterPaths     -> Answer(nav_enter(s), Ok(""))
      [] path = "/menu/esc"      -> Answer(close_menu(s), Ok(""))
      [] path = "/menu/nav/left" ->
            Answer(IF s.mode = "guide" THEN guide_left(s) ELSE {nav_up(s)}, Ok(""))
      [] path = "/menu/nav/right" ->
            Answer(IF s.mode = "guide" THEN guide_right(s) ELSE {nav_down(s)}, Ok(""))
      [] path = "/menu/nav/pageup" ->
            Answer(IF s.mode = "guide" THEN guide_page_up(s) ELSE {nav_up(s)}, Ok(""))
      [] path = "/menu/nav/pagedown" ->
            Answer(IF s.mode = "guide" THEN guide_page_down(s) ELSE {nav_down(s)}, Ok(""))
      [] path = "/menu/guide"     -> Answer(_enter_guide_mode(s), Ok("guide"))
      [] path = "/menu/select/"   -> DoSelect(s, key)
      [] path = "/menu/activate/" -> DoActivate(s, key)
      [] OTHER -> Answer({s}, Resp(404, FALSE, "unknown"))

\* the keys of MenuWindow.keyPressEvent (Key_Other: any key it does not name)
Keys ==
    {"Key_Escape", "Key_Home", "Key_Up", "Key_Down", "Key_Left", "Key_Right",
     "Key_Return", "Key_PageUp", "Key_PageDown", "Key_Other"}

Handled == Resp(0, TRUE, "handled")
Ignored == Resp(0, TRUE, "ignored")

\* MenuWindow.keyPressEvent
keyPressEvent(s, k) ==
    CASE k = "Key_Escape" -> Answer(close_menu(s), Handled)
      [] k = "Key_Home"   ->
            Answer(IF s.visible THEN close_menu(s) ELSE open_menu(s), Handled)
      [] ~s.visible       -> Answer({s}, Ignored)
      [] s.mode = "root" /\ k \in {"Key_Up", "Key_Left"}    -> Answer({nav_up(s)}, Handled)
      [] s.mode = "root" /\ k \in {"Key_Down", "Key_Right"} -> Answer({nav_down(s)}, Handled)
      [] s.mode = "root" /\ k \in {"Key_Return", "Key_Enter"} -> Answer(nav_enter(s), Handled)
      [] s.mode = "root" /\ k = "Key_PageUp"   -> Answer({PageStep(s, -2)}, Handled)
      [] s.mode = "root" /\ k = "Key_PageDown" -> Answer({PageStep(s, 2)}, Handled)
      [] s.mode = "guide" /\ k = "Key_Left"  -> Answer(guide_left(s), Handled)
      [] s.mode = "guide" /\ k = "Key_Right" -> Answer(guide_right(s), Handled)
      [] s.mode = "guide" /\ k \in {"Key_PageUp", "Key_Up"}     -> Answer(guide_page_up(s), Handled)
      [] s.mode = "guide" /\ k \in {"Key_PageDown", "Key_Down"} -> Answer(guide_page_down(s), Handled)
      [] s.mode = "guide" /\ k \in {"Key_Return", "Key_Enter"}  -> Answer(nav_enter(s), Handled)
      [] OTHER -> Answer({s}, Ignored)

(***************************************************************************)
(* The overlay (fsx_overlay.py): its state and one poll of the player       *)
(***************************************************************************)
\* --infobar-ms: how long the info bar stays after a channel change
INFOBAR_MS == 2000

\* clean_title: the name without its last extension
clean_title(t) ==
    CASE t = "live.mp4" -> "live"
      [] t = "a.mp4"    -> "a"
      [] t = "b.mp4"    -> "b"
      [] t = "c.mp4"    -> "c"
      [] t = "d.mp4"    -> "d"
      [] OTHER          -> t

\* FSXOverlay.__init__: nothing known about the player yet, info bar hidden,
\* hide timer (single shot) not running; hide_timer holds the milliseconds
\* left until the timer fires, None when it is not running
OverlayInit ==
    [current_channel |-> None, current_name |-> "", current_title |-> "",
     current_tag |-> None, next_title |-> "", now_start |-> None, now_end |-> None,
     infobar_visible |-> FALSE, hide_timer |-> None]

\* show_infobar that does not start the hide timer
show_infobar_no_timer(o, ms) == [o EXCEPT !.infobar_visible = TRUE]

\* show_infobar: visible, and the hide timer (re)started with ms
show_infobar(o, ms) == [o EXCEPT !.infobar_visible = TRUE, !.hide_timer = <<ms>>]

\* hide_infobar, the slot of the hide timer
hide_infobar(o) == [o EXCEPT !.infobar_visible = FALSE, !.hide_timer = None]

\* what GET /status can answer the overlay: nothing, an answer without a
\* channel, or the channel with the name and title the player reports
OverlayAnswers(ch) ==
    { None,
      << [channel |-> None, name |-> "", title |-> ""] >>,
      << [channel |-> <<ch>>, name |-> ChannelName(ch), title |-> "live.mp4"] >>,
      << [channel |-> <<ch>>, name |-> "", title |-> ""] >> }

\* _read_status that takes an answer without a channel for channel 1
_read_status_default_channel(ans) ==
    IF ans = None THEN None
    ELSE << [channel |-> IF ans[1].channel = None THEN "1" ELSE ans[1].channel[1],
             name |-> ans[1].name, title |-> ans[1].title] >>

\* _read_status: None without an answer or without a channel in it
_read_status(ans) ==
    IF ans = None \/ ans[1].channel = None THEN None
    ELSE << [channel |-> ans[1].channel[1], name |-> ans[1].name,
             title |-> ans[1].title] >>

\* int(x) if x else None, over a column of a row
IntOrNone(x) == IF x = 0 THEN None ELSE <<x>>

\* now_row.get("tag") or None: the column is optional in the store
RowTag(r) == IF "tag" \in DOMAIN r /\ r.tag # "" THEN <<r.tag>> ELSE None

\* --hide-tags
HIDE_TAGS == {"commercial", "promo", "news"}

\* tick: one poll. ans is the answer of GET /status, db_ok whether the store
\* exists and answers its queries
tick(o, rows, db_ok, ans, now_ts) ==
    LET st == _read_status(ans)
    IN  IF st = None THEN o
        ELSE
        LET chan     == st[1].channel
            fallback == st[1].title
            nn       == IF db_ok THEN schedule_now_next(rows, chan, now_ts)
                        ELSE << None, None >>
            now_row  == nn[1]
            next_row == nn[2]
            tag_for_now == IF now_row # None THEN RowTag(now_row[1]) ELSE None
            o1 == IF now_row # None
                  THEN [o EXCEPT
                          !.current_title =
                              clean_title(IF now_row[1].title # ""
                                          THEN now_row[1].title ELSE fallback),
                          !.now_start = IntOrNone(now_row[1].start_utc),
                          !.now_end   = IntOrNone(now_row[1].end_utc)]
                  ELSE [o EXCEPT !.current_title = clean_title(fallback),
                                 !.now_start = None, !.now_end = None]
            o2 == [o1 EXCEPT !.next_title =
                       IF next_row # None THEN clean_title(next_row[1].title) ELSE ""]
            o3 == IF <<chan>> # o2.current_channel
                  THEN show_infobar([o2 EXCEPT !.current_channel = <<chan>>,
                                               !.current_name = st[1].name],
                                    INFOBAR_MS)
                  ELSE o2
            tag_changed == tag_for_now # o3.current_tag
            o4 == [o3 EXCEPT !.current_tag = tag_for_now]
        IN  IF tag_changed /\ (o4.current_tag = None
                               \/ o4.current_tag[1] \notin HIDE_TAGS)
            THEN show_infobar(o4, (INFOBAR_MS * 6) \div 10)
            ELSE o4

(***************************************************************************)
(* The state machine                                                       *)
(***************************************************************************)
NoRun == [dir |-> "none", n |-> 0]
NoToggles == [n |-> 0, sel |-> 0, sel_last |-> 0]

\* the state a command starts from, as the next state remembers it
Snapshot ==
    [ visible |-> visible, mode |-> mode, sel |-> sel, sel_last |-> sel_last,
      preview |-> preview_proc, audio |-> audio_proc ]

NoSnapshot ==
    [ visible |-> FALSE, mode |-> "root", sel |-> 0, sel_last |-> 0,
      preview |-> None, audio |-> None ]

NoResp == Resp(0, TRUE, "")

NoQuery ==
    [ch |-> "", row |-> None, menu |-> None, overlay |-> <<None, None>>,
     db_ok |-> TRUE, guide |-> <<>>, ans |-> None, tick |-> None]

\* no command in progress on either thread; last and fin: the command that was
\* taken up last and the one that returned last
NoThread == [op |-> "idle", i |-> 0, p |-> None, path |-> None]
NoThreads == [http |-> NoThread, ui |-> NoThread, last |-> "none", fin |-> "none"]

\* the state after construction (MenuWindow.__init__), over the store rows at
\* the instant now_ts
InitOn(rows, now_ts) ==
    /\ visible = FALSE
    /\ mode = "root"
    /\ sel = 0
    /\ sel_last = 0
    /\ guide_rows = <<>>
    /\ g_sel_row = 0
    /\ g_sel_col = 0
    /\ g_row_offset = 0
    /\ preview_proc = None
    /\ audio_proc = None
    /\ footer = [shown |-> FALSE, ch_num |-> "", ch_name |-> ""]
    /\ orphans = [preview |-> 0, audio |-> 0]
    /\ db = rows
    /\ now = now_ts
    /\ cmd = "idle"
    /\ resp = NoResp
    /\ log = <<>>
    /\ pre = NoSnapshot
    /\ run = NoRun
    /\ toggles = NoToggles
    /\ closedSel = 0
    /\ query = NoQuery
    /\ thr = NoThreads
    /\ ipc_muted = FALSE
    /\ ov = OverlayInit

Init == InitOn(SchedRows, ClockNow)

InitGuide == InitOn(GuideRows, ClockNow)

\* the run of navigate(down) / navigate(up) commands in Root mode that started
\* with the cursor on index 0, after command c
NextRun(c) ==
    LET dir == IF c \in {"/menu/nav/down", "Key_Down"} THEN "down"
               ELSE IF c \in {"/menu/nav/up", "Key_Up"} THEN "up" ELSE "none"
    IN  IF dir = "none" \/ ~visible \/ mode # "root" THEN NoRun
        ELSE IF run.dir = dir /\ run.n < MaxRun THEN [dir |-> dir, n |-> run.n + 1]
        ELSE IF sel = 0 THEN [dir |-> dir, n |-> 1]
        ELSE NoRun

\* the run of toggle commands that started from Hidden, after command c
NextToggles(c) ==
    IF c # "/menu/toggle" THEN NoToggles
    ELSE IF ~visible THEN [n |-> 1, sel |-> sel, sel_last |-> sel_last]
    ELSE IF toggles.n = 1 THEN [toggles EXCEPT !.n = 2]
    ELSE NoToggles

\* command c ends in state r
Apply(c, r) ==
    /\ visible' = r.visible
    /\ mode' = r.mode
    /\ sel' = r.sel
    /\ sel_last' = r.sel_last
    /\ guide_rows' = r.guide_rows
    /\ g_sel_row' = r.g_sel_row
    /\ g_sel_col' = r.g_sel_col
    /\ g_row_offset' = r.g_row_offset
    /\ preview_proc' = r.preview_proc
    /\ audio_proc' = r.audio_proc
    /\ footer' = r.footer
    /\ orphans' = r.orphans
    /\ db' = db
    /\ now' = now
    /\ cmd' = c
    /\ resp' = r.resp
    /\ log' = r.log
    /\ pre' = Snapshot
    /\ run' = NextRun(c)
    /\ toggles' = NextToggles(c)
    /\ closedSel' = IF visible /\ ~r.visible THEN r.sel ELSE closedSel
    /\ query' = query
    /\ thr' = thr
    /\ ipc_muted' = r.ipc_muted
    /\ ov' = ov

\* a request of the remote-control transport, taken up when no other command is
\* being answered (cmd: the path of the request, with the key of a select or
\* activate request)
Http(path, key) ==
    /\ cmd = "idle"
    /\ \E r \in do_POST(Cur, path, key) : Apply(path \o key, r)

HttpOpen     == Http("/menu/open", "")
HttpClose    == Http("/menu/close", "")
HttpToggle   == Http("/menu/toggle", "")
HttpNavUp    == Http("/menu/nav/up", "")
HttpNavDown  == Http("/menu/nav/down", "")
HttpEnter    ==
    /\ cmd = "idle"
    /\ \E p \in EnterPaths : \E r \in do_POST(Cur, p, "") : Apply("/menu/enter", r)
HttpEsc      == Http("/menu/esc", "")
HttpLeft     == Http("/menu/nav/left", "")
HttpRight    == Http("/menu/nav/right", "")
HttpPageUp   == Http("/menu/nav/pageup", "")
HttpPageDown == Http("/menu/nav/pagedown", "")
HttpGuide    == Http("/menu/guide", "")
HttpSelect   == \E key \in SelectKeys : Http("/menu/select/", key)
HttpActivate == \E key \in SelectKeys : Http("/menu/activate/", key)
HttpUnknown  == Http("/menu/unknown", "")

\* a key event of the UI thread
KeyPress ==
    /\ cmd = "idle"
    /\ \E k \in Keys : \E r \in keyPressEvent(Cur, k) : Apply(k, r)

\* the handler returns: the answer is written (_ok, _bad) or the key event ends
Done ==
    /\ cmd # "idle"
    /\ cmd' = "idle"
    /\ resp' = NoResp
    /\ log' = <<>>
    /\ pre' = NoSnapshot
    /\ closedSel' = IF visible THEN 0 ELSE closedSel
    /\ UNCHANGED << visible, mode, sel, sel_last, guide_rows, g_sel_row, g_sel_col,
                    g_row_offset, preview_proc, audio_proc, footer, orphans, db, now,
                    run, toggles, query, thr, ipc_muted, ov >>

\* what the environment does between commands
EnvStep ==
    /\ cmd = "idle"
    /\ UNCHANGED << visible, mode, sel, sel_last, guide_rows, g_sel_row, g_sel_col,
                    g_row_offset, footer, orphans, db, now, cmd, resp, log,
                    pre, run, toggles, closedSel, query, thr, ipc_muted, ov >>

\* the preview process exits by itself
PreviewExits ==
    /\ IsLive(preview_proc)
    /\ preview_proc' = Exited(preview_proc)
    /\ UNCHANGED audio_proc
    /\ EnvStep

\* the audio process exits by itself
AudioExits ==
    /\ IsLive(audio_proc)
    /\ audio_proc' = Exited(audio_proc)
    /\ UNCHANGED preview_proc
    /\ EnvStep

Next ==
    \/ HttpOpen \/ HttpClose \/ HttpToggle
    \/ HttpNavUp \/ HttpNavDown \/ HttpEnter \/ HttpEsc
    \/ HttpLeft \/ HttpRight \/ HttpPageUp \/ HttpPageDown
    \/ HttpGuide \/ HttpSelect \/ HttpActivate \/ HttpUnknown
    \/ KeyPress
    \/ Done
    \/ PreviewExits \/ AudioExits

Spec == Init /\ [][Next]_vars

(***************************************************************************)
(* The queries of the schedule store, over small stores and instants       *)
(***************************************************************************)
\* the rows the stores are made of: one channel with overlapping rows, a
\* repeated title and a row without a path, and a second channel; a row that
\* ends when it starts and one that ends before it starts; no two rows of a
\* channel start at the same instant
StoreRows ==
    { Row("1", 100, 200, "a.mp4", "A"),
      Row("1", 150, 300, "b.mp4", "B"),
      Row("1", 200, 260, "c.mp4", "A"),
      Row("1", 120, 130, "", "S"),
      Row("1", 250, 240, "d.mp4", "D"),
      Row("2", 100, 300, "c.mp4", "C"),
      Row("2", 150, 150, "d.mp4", "D") }

\* time.time() at the query
Instants == {99, 100, 125, 150, 199, 200, 250, 300}

\* a channel with seven consecutive rows, [50, 100) to [350, 400)
LongChannel == { Row("3", 50 * k, 50 * k + 50, "a.mp4", "L") : k \in 1..7 }

InitSched ==
    \E rows \in SUBSET StoreRows : \E long \in {{}, LongChannel} :
        \E now_ts \in Instants : InitOn(rows \cup long, now_ts)

\* the menu resolves the current path and offset of channel ch, and the overlay
\* asks for the channel's now and next rows, at the same instant; at that
\* instant too, with the store answering or not (db_ok), the menu takes a guide
\* snapshot and a freshly started overlay polls the player, which answers ans;
\* the store and the instant are fixed, one question is asked of them
Query(ch) ==
    /\ query = NoQuery
    /\ \E db_ok \in BOOLEAN : \E ans \in OverlayAnswers(ch) :
         query' = [ch |-> ch,
                   row |-> CurrentRow(db, ch, now),
                   menu |-> resolve_now_path_and_offset(db, TRUE, ch, now),
                   overlay |-> schedule_now_next(db, ch, now),
                   db_ok |-> db_ok,
                   guide |-> load_channels_and_events(db, db_ok, now),
                   ans |-> ans,
                   tick |-> << tick(OverlayInit, db, db_ok, ans, now) >>]
    /\ UNCHANGED << visible, mode, sel, sel_last, guide_rows, g_sel_row, g_sel_col,
                    g_row_offset, preview_proc, audio_proc, footer, orphans, db, now,
                    cmd, resp, log, pre, run, toggles, closedSel, thr, ipc_muted, ov >>

NextSched == \E ch \in {"1", "2", "3"} : Query(ch)

SpecSched == InitSched /\ [][NextSched]_vars

\* the program over the store GuideRows, driven by the requests that open the
\* menu, browse the guide and leave it
NextGuide ==
    \/ HttpOpen \/ HttpGuide
    \/ HttpLeft \/ HttpRight \/ HttpPageUp \/ HttpPageDown
    \/ HttpEsc
    \/ Done
    \/ PreviewExits \/ AudioExits

SpecGuide == InitGuide /\ [][NextGuide]_vars

(***************************************************************************)
(* The two threads. start_http runs HTTPServer.serve_forever on a daemon    *)
(* thread, and do_POST calls the methods of the window from that thread;    *)
(* keyPressEvent calls the same methods from the UI thread. Nothing orders  *)
(* the two: the statements of open_menu and close_menu running on one       *)
(* thread interleave with those running on the other, each statement below  *)
(* being a blocking call (a request to the player, Popen, wait) or an       *)
(* assignment to the state both threads share.                              *)
(***************************************************************************)
\* the helper processes the program may leave running unowned before the
\* threads take up no further command
MaxLeaked == 2

Threads == {"http", "ui"}

\* open_menu, statement by statement: showFullScreen and _pause_playback;
\* _start_preview_from_status up to the call of start_preview; stop_preview
\* (terminate and wait, then proc = None); Popen; proc = the new process; the
\* footer and the test of MenuAudio.start; MenuAudio.stop; Popen; proc = ...;
\* mode and sel
OpenSteps ==
    << "show", "resolve", "pv_term", "pv_clear", "pv_spawn", "pv_assign",
       "au_check", "au_term", "au_clear", "au_spawn", "au_assign", "root" >>

\* close_menu, statement by statement: MenuAudio.stop, stop_preview, then the
\* footer, hide and _return_to_live
CloseSteps == << "au_term", "au_clear", "pv_term", "pv_clear", "hide" >>

Steps(op) == IF op = "open" THEN OpenSteps ELSE CloseSteps

\* the thread after its current statement, and after a jump to statement name
Advance(th) == [th EXCEPT !.i = @ + 1]
Goto(th, name) ==
    [th EXCEPT !.i = CHOOSE k \in DOMAIN Steps(th.op) : Steps(th.op)[k] = name]

\* the outcomes << state, thread >> of the statement thread th is at
Statement(s, th) ==
    LET step == Steps(th.op)[th.i]
    IN  CASE step = "show" ->
                { << [s EXCEPT !.visible = TRUE], Advance(th) >> }
          [] step = "resolve" ->
                UNION { { LET pair == IF st = None THEN None
                                      ELSE IF st[1].channel = "" THEN None
                                      ELSE resolve_now_path_and_offset(s.db, db_ok,
                                                                       st[1].channel, s.now)
                          IN  IF pair = None THEN << s, Goto(th, "au_check") >>
                              ELSE IF pair[1] \notin MediaFiles THEN << s, Goto(th, "au_check") >>
                              ELSE << s, [Advance(th) EXCEPT !.path = pair] >>
                          : db_ok \in BOOLEAN } : st \in StatusVals }
          [] step = "pv_term" ->
                { << IF IsLive(s.preview_proc)
                     THEN [s EXCEPT !.preview_proc = Exited(@)] ELSE s, Advance(th) >> }
          [] step = "pv_clear" ->
                { << AssignPreview(s, None), Advance(th) >> }
          [] step = "pv_spawn" ->
                { << s, [Advance(th) EXCEPT
                           !.p = << Proc(th.path[1], Max2(0, th.path[2])) >>] >>,
                  << s, Advance(th) >> }
          [] step = "pv_assign" ->
                { << AssignPreview(s, th.p), [Advance(th) EXCEPT !.p = None, !.path = None] >> }
          [] step = "au_check" ->
                UNION { { << [x EXCEPT !.log = <<>>], Goto(th, "root") >>,
                          << [x EXCEPT !.log = <<>>], Advance(th) >> }
                        : x \in _update_pip_footer_from_status(s) }
          [] step = "au_term" ->
                { << IF IsLive(s.audio_proc)
                     THEN [s EXCEPT !.audio_proc = Exited(@)] ELSE s, Advance(th) >> }
          [] step = "au_clear" ->
                { << AssignAudio(s, None), Advance(th) >> }
          [] step = "au_spawn" ->
                { << s, [Advance(th) EXCEPT !.p = << Proc("audio", 0) >>] >>,
                  << s, Advance(th) >> }
          [] step = "au_assign" ->
                { << AssignAudio(s, th.p), [Advance(th) EXCEPT !.p = None] >> }
          [] step = "root" ->
                { << [s EXCEPT !.mode = "root", !.sel = s.sel_last], NoThread >> }
          [] step = "hide" ->
                { << [footer_hide(s) EXCEPT !.visible = FALSE], NoThread >> }

\* thread t takes up a command: the worker POST /menu/open or /menu/close, the
\* UI thread Key_Home (open when hidden) or Key_Escape (close)
RaceBegin(t, op) ==
    /\ thr[t].op = "idle"
    /\ orphans.preview + orphans.audio < MaxLeaked
    /\ (t = "ui" /\ op = "open") => ~visible
    /\ thr' = [thr EXCEPT ![t] = [op |-> op, i |-> 1, p |-> None, path |-> None],
                          !.last = op]
    /\ UNCHANGED << visible, mode, sel, sel_last, guide_rows, g_sel_row, g_sel_col,
                    g_row_offset, preview_proc, audio_proc, footer, orphans, db, now,
                    cmd, resp, log, pre, run, toggles, closedSel, query, ipc_muted, ov >>

\* thread t runs its next statement
RaceStep(t) ==
    /\ thr[t].op # "idle"
    /\ \E o \in Statement(Cur, thr[t]) :
          /\ visible' = o[1].visible
          /\ mode' = o[1].mode
          /\ sel' = o[1].sel
          /\ preview_proc' = o[1].preview_proc
          /\ audio_proc' = o[1].audio_proc
          /\ footer' = o[1].footer
          /\ orphans' = o[1].orphans
          /\ thr' = [thr EXCEPT ![t] = o[2],
                                !.fin = IF o[2].op = "idle" THEN thr[t].op ELSE @]
    /\ UNCHANGED << sel_last, guide_rows, g_sel_row, g_sel_col, g_row_offset, db, now,
                    cmd, resp, log, pre, run, toggles, closedSel, query, ipc_muted, ov >>

HttpThreadOpens  == RaceBegin("http", "open")
HttpThreadCloses == RaceBegin("http", "close")
UiThreadOpens    == RaceBegin("ui", "open")
UiThreadCloses   == RaceBegin("ui", "close")
HttpThreadSteps  == RaceStep("http")
UiThreadSteps    == RaceStep("ui")

NextRace ==
    \/ HttpThreadOpens \/ HttpThreadCloses \/ UiThreadOpens \/ UiThreadCloses
    \/ HttpThreadSteps \/ UiThreadSteps

SpecRace == Init /\ [][NextRace]_vars

(***************************************************************************)
(* The overlay at run time: the poll timer calls tick every POLL_MS, and    *)
(* the single-shot hide timer calls hide_infobar when the time show_infobar *)
(* gave it has run out. Both are timers of the one Qt event loop, which     *)
(* runs the slot of every timer that is due.                                *)
(***************************************************************************)
\* --poll-ms
POLL_MS == 400

\* a row of a store whose table has a tag column
TagRow(ch, st, en, p, t, tag) ==
    [channel_id |-> ch, start_utc |-> st, end_utc |-> en, path |-> p, title |-> t,
     tag |-> tag]

\* the store the overlay polls: a tagged programme followed by a commercial on
\* channel 1, an untagged programme on channel 2
OverlayStore ==
    { TagRow("1", 100, 200, "a.mp4", "A", "movie"),
      TagRow("1", 200, 300, "b.mp4", "", "commercial"),
      Row("2", 100, 300, "c.mp4", "C") }

\* the instants of time.time() the polls fall on
OverlayInstants == {150, 250}

\* the channels the player can be tuned to
OverlayChannels == {"1", "2"}

InitOverlay == InitOn(OverlayStore, 150)

\* one poll interval passes on the hide timer
Elapse(o) ==
    IF o.hide_timer = None THEN o
    ELSE [o EXCEPT !.hide_timer = << o.hide_timer[1] - POLL_MS >>]

\* whether this poll calls show_infobar
TickShows(o, rows, db_ok, ans, now_ts) ==
    tick([o EXCEPT !.infobar_visible = FALSE], rows, db_ok, ans, now_ts).infobar_visible

\* the poll timer is due: tick runs on what the player and the store answer at
\* this instant (query: the answers, log: the show_infobar of this tick)
OverlayTick ==
    /\ IF ov.hide_timer = None THEN TRUE ELSE ov.hide_timer[1] >= POLL_MS
    /\ \E ch \in OverlayChannels : \E ans \in OverlayAnswers(ch) : \E db_ok \in BOOLEAN :
       \E t \in { n \in OverlayInstants : n >= now } :
          LET r == tick(Elapse(ov), db, db_ok, ans, t)
          IN  /\ ov' = r
              /\ now' = t
              /\ cmd' = "tick"
              /\ query' = [NoQuery EXCEPT !.ch = ch, !.ans = ans, !.db_ok = db_ok]
              /\ log' = IF TickShows(Elapse(ov), db, db_ok, ans, t)
                        THEN << Ev("show_infobar", "", 0, "") >>
                        ELSE <<>>
    /\ UNCHANGED << visible, mode, sel, sel_last, guide_rows, g_sel_row, g_sel_col,
                    g_row_offset, preview_proc, audio_proc, footer, orphans, db,
                    resp, pre, run, toggles, closedSel, thr, ipc_muted >>

\* the hide timer is due: its slot hide_infobar runs, once
HideTimerFires ==
    /\ IF ov.hide_timer = None THEN FALSE ELSE ov.hide_timer[1] <= POLL_MS
    /\ ov' = hide_infobar(ov)
    /\ cmd' = "hide_timer"
    /\ query' = NoQuery
    /\ log' = <<>>
    /\ UNCHANGED << visible, mode, sel, sel_last, guide_rows, g_sel_row, g_sel_col,
                    g_row_offset, preview_proc, audio_proc, footer, orphans, db, now,
                    resp, pre, run, toggles, closedSel, thr, ipc_muted >>

NextOverlay == OverlayTick \/ HideTimerFires

SpecOverlay == InitOverlay /\ [][NextOverlay]_vars

\* the event loop keeps running the slots of the timers that are due
FairOverlay == SpecOverlay /\ WF_vars(OverlayTick) /\ WF_vars(HideTimerFires)

(***************************************************************************)
(* Properties                                                              *)
(***************************************************************************)
\* the fields of the menu, its two process handles and the helper processes
ProgState ==
    << visible, mode, sel, sel_last, guide_rows, g_sel_row, g_sel_col, g_row_offset,
       preview_proc, audio_proc, footer, orphans >>

NoOrphans == orphans = [preview |-> 0, audio |-> 0]

\* the channel ids a tune request can name
AllChans ==
    { r.channel_id : r \in db } \cup { st[1].channel : st \in StatusVals \ {None} }

\* a tune-to-channel request, POST /zap/<channel>
IsZap(e) == e.op = "POST" /\ \E c \in AllChans : e.a = ZapUrl(c)

ZapIdx == { i \in DOMAIN log : IsZap(log[i]) }

\* the go-live request, POST /live
IsLiveReq(e) == e.op = "POST" /\ e.a = "/live"

\* a signal to a helper process
IsStop(e) == e.op \in {"terminate", "kill"}

\* the tune of resume-live: right after a go-live request that failed and a
\* status answer, to the channel that answer names
FallbackZap(i) ==
    /\ i >= 3
    /\ IsLiveReq(log[i-2]) /\ log[i-2].n # 200
    /\ log[i-1].op = "GET" /\ log[i-1].n = 200
    /\ log[i].a = ZapUrl(log[i-1].v)

\* the commands that run close_menu in any state, confirm() and cancel()
CloseCmds == {"/menu/close", "Key_Escape"}
ConfirmCmds == {"/menu/enter", "Key_Return"}
CancelCmds == {"/menu/esc", "Key_Escape"}

\* close_menu has run: a close, or a cancel or toggle of the visible menu
CloseDone ==
    \/ cmd \in CloseCmds
    \/ cmd \in {"/menu/esc", "/menu/toggle", "Key_Home"} /\ pre.visible

SpawnIdx == { i \in DOMAIN log : log[i].op = "spawn_preview" }

\* C1: at most one live preview process at any instant: no live preview
\* process exists outside the handle, and when a command spawned a preview, the
\* process that was live before was terminated earlier in that command and the
\* handle owns exactly the spawned process, on the spawn's path and offset.
C1_OneLivePreview ==
    /\ orphans.preview = 0
    /\ \A i \in SpawnIdx :
          /\ IsLive(pre.preview) =>
                \E j \in 1..(i-1) : log[j].op = "terminate" /\ log[j].a = "preview"
          /\ preview_proc = << Proc(log[i].a, log[i].n) >>

\* a guide row move replaced the live preview of a.mp4 at offset 2 by c.mp4 at offset 1
C1_Witness ==
    /\ cmd = "/menu/nav/pagedown"
    /\ pre.preview = << Proc("a.mp4", 2) >>
    /\ preview_proc = << Proc("c.mp4", 1) >>
    /\ log = << Ev("terminate", "preview", 0, ""), Ev("spawn_preview", "c.mp4", 1, "") >>

\* C2: after close() both handles own no process (and none was left running),
\* whatever the mode and the guide cursor were.
C2_CloseStopsBoth ==
    CloseDone => /\ ~visible
                 /\ preview_proc = None
                 /\ audio_proc = None
                 /\ NoOrphans

\* close from Guide mode, cursor on the second row, both helpers running
C2_Witness ==
    /\ cmd = "/menu/close"
    /\ pre.visible /\ pre.mode = "guide" /\ g_sel_row = 1
    /\ IsLive(pre.preview) /\ IsLive(pre.audio)
    /\ preview_proc = None /\ audio_proc = None

\* C3: with no command in progress and the menu Hidden, no helper process is
\* live: neither handle owns one and none runs unowned.
C3_NoLeakWhenHidden ==
    (cmd = "idle" /\ ~visible) =>
        /\ ~IsLive(preview_proc)
        /\ ~IsLive(audio_proc)
        /\ NoOrphans

\* Hidden again after the guide was browsed and the menu closed on item 1
C3_Witness ==
    /\ cmd = "idle" /\ ~visible
    /\ guide_rows # <<>> /\ g_sel_row = 1 /\ closedSel = 1

\* C4: two toggles from Hidden end Hidden, with the root cursor and the
\* last-selected index of the start and no helper process left.
C4_ToggleTwice ==
    toggles.n = 2 =>
        /\ ~visible
        /\ sel = toggles.sel
        /\ sel_last = toggles.sel_last
        /\ preview_proc = None
        /\ audio_proc = None
        /\ NoOrphans

\* the second toggle answered, the cursor back on item 2
C4_Witness ==
    /\ cmd = "/menu/toggle" /\ toggles.n = 2 /\ toggles.sel = 2
    /\ pre.visible /\ IsLive(pre.audio)

\* the commands C5 names as no-ops while the menu is Hidden
ClaimedNoOps ==
    { "/menu/close", "/menu/esc", "Key_Escape",
      "/menu/nav/up", "/menu/nav/down", "/menu/nav/left", "/menu/nav/right",
      "/menu/nav/pageup", "/menu/nav/pagedown",
      "Key_Up", "Key_Down", "Key_Left", "Key_Right", "Key_PageUp", "Key_PageDown",
      "/menu/enter", "Key_Return", "/menu/guide" }
    \cup { "/menu/select/" \o k : k \in SelectKeys }
    \cup { "/menu/activate/" \o k : k \in SelectKeys }

\* a command is taken up while the menu is Hidden
HiddenStep == cmd = "idle" /\ ~visible /\ cmd' # "idle"

\* C5 as stated: while the menu is Hidden every command but open and toggle
\* changes nothing and sends nothing.
C5_Original ==
    [][ (HiddenStep /\ cmd' \in ClaimedNoOps) =>
            (ProgState' = ProgState /\ log' = <<>>) ]_vars

\* C5 (amended): while the menu is Hidden every command but open and toggle
\* leaves the menu state unchanged; all of them but close (the close request
\* and the Escape key) send nothing, and close sends the resume-live requests
\* to the player and no signal to a helper process.
C5_HiddenNoOps ==
    [][ (HiddenStep /\ cmd' \in ClaimedNoOps) =>
            /\ ProgState' = ProgState
            /\ IF cmd' \in CloseCmds
               THEN /\ log' # <<>>
                    /\ IsLiveReq(log'[1])
                    /\ \A i \in DOMAIN log' : log'[i].op \in {"POST", "GET", "ipc"}
               ELSE log' = <<>> ]_vars

\* a navigation request answered "ignored" by the Hidden menu, after it was used
C5_Witness ==
    /\ cmd = "/menu/nav/down" /\ ~pre.visible /\ ~visible
    /\ resp = Ok("not-visible") /\ log = <<>> /\ closedSel = 2

\* C6: n times navigate(down) from root index 0 gives index n mod itemCount,
\* n times navigate(up) gives (-n) mod itemCount, and the last-selected index
\* follows the cursor.
C6_RootWraps ==
    /\ run.dir = "down" => (sel = run.n % ItemCount /\ sel_last = sel)
    /\ run.dir = "up"   => (sel = (0 - run.n) % ItemCount /\ sel_last = sel)

\* five times down from index 0: past the last item, on index 1
C6_Witness ==
    run = [dir |-> "down", n |-> ItemCount + 1] /\ sel = 1

\* C7: open() from Hidden puts the root cursor on the index that was selected
\* when the menu was last hidden (0 before the first open), in Root mode.
C7_CursorRestored ==
    (cmd # "idle" /\ ~pre.visible /\ visible) =>
        (sel = closedSel /\ sel_last = closedSel /\ mode = "root")

\* reopened on item 2 after a close from Guide mode
C7_Witness ==
    /\ cmd = "/menu/open" /\ ~pre.visible /\ visible
    /\ pre.mode = "guide" /\ closedSel = 2 /\ sel = 2

\* C8: in Root mode confirm() enters Guide mode exactly when the selected item
\* is "TV Guide"; on every other item it closes the menu: Hidden, preview and
\* audio stopped, a go-live request sent.
C8_RootConfirm ==
    (cmd \in ConfirmCmds /\ pre.visible /\ pre.mode = "root") =>
        IF MENU_ITEMS[pre.sel + 1] = "TV Guide"
        THEN visible /\ mode = "guide"
        ELSE /\ ~visible /\ mode = "root"
             /\ preview_proc = None /\ audio_proc = None /\ NoOrphans
             /\ \E i \in DOMAIN log : IsLiveReq(log[i])

\* confirm on "Planner" closed the menu with both helpers running
C8_Witness ==
    /\ cmd = "/menu/enter" /\ pre.visible /\ pre.mode = "root"
    /\ MENU_ITEMS[pre.sel + 1] = "Planner"
    /\ IsLive(pre.preview) /\ IsLive(pre.audio)
    /\ ~visible /\ preview_proc = None /\ audio_proc = None

\* confirm() was handled in Guide mode
GuideConfirm == cmd \in ConfirmCmds /\ pre.visible /\ pre.mode = "guide"

\* the channel of the row at the guide cursor
CursorChannel == guide_rows[g_sel_row + 1].id

\* C9 as stated: confirm() in Guide mode sends exactly one tune, for the row at
\* the cursor and before the close sequence, and none with an empty snapshot;
\* the menu ends Hidden.
C9_Original ==
    GuideConfirm =>
        /\ ~visible
        /\ IF guide_rows # <<>>
           THEN ZapIdx = {1} /\ log[1].a = ZapUrl(CursorChannel)
           ELSE ZapIdx = {}

\* C9 (amended): confirm() in Guide mode with a non-empty snapshot sends a tune
\* for the row at the cursor as its first request, before every signal to a
\* helper and before the go-live request; with an empty snapshot it sends no
\* such tune. The menu ends Hidden. The only other tune it can send is the one
\* of resume-live: at most one, after a failed go-live request, to the channel
\* the player's status names.
C9_GuideConfirmTunes ==
    GuideConfirm =>
        /\ ~visible
        /\ guide_rows # <<>> =>
              /\ 1 \in ZapIdx /\ log[1].a = ZapUrl(CursorChannel)
              /\ \A i \in DOMAIN log : (IsStop(log[i]) \/ IsLiveReq(log[i])) => i > 1
        /\ guide_rows = <<>> => 1 \notin ZapIdx
        /\ \A i \in ZapIdx \ {1} : FallbackZap(i)
        /\ Cardinality(ZapIdx \ {1}) <= 1
        /\ \E i \in DOMAIN log : IsLiveReq(log[i])

\* confirm on the second guide row tuned to channel 2 and closed the menu
C9_Witness ==
    /\ GuideConfirm /\ g_sel_row = 1 /\ ~visible
    /\ log[1] = Ev("POST", ZapUrl("2"), 200, "")
    /\ ZapIdx = {1}

\* cancel() was handled in Guide mode
GuideCancel == cmd \in CancelCmds /\ pre.visible /\ pre.mode = "guide"

\* C10 as stated: cancel() in Guide mode ends Hidden and sends no tune.
C10_Original ==
    GuideCancel => (~visible /\ ZapIdx = {})

\* C10 (amended): cancel() in Guide mode ends Hidden and sends no tune for the
\* guide cursor: the only tune it can send is the one of resume-live, at most
\* one, after a failed go-live request, to the channel the player's status names.
C10_GuideCancel ==
    GuideCancel =>
        /\ ~visible
        /\ \A i \in ZapIdx : FallbackZap(i)
        /\ Cardinality(ZapIdx) <= 1

\* cancel on the second guide row: closed, go-live answered, nothing tuned
C10_Witness ==
    /\ GuideCancel /\ g_sel_row = 1 /\ ~visible
    /\ IsLive(pre.preview)
    /\ ZapIdx = {}
    /\ log[Len(log)] = Ev("POST", "/live", 200, "")

\* the menu shows the guide
InGuide == visible /\ mode = "guide"

\* the events of the row at the guide cursor
CursorEvents == guide_rows[g_sel_row + 1].events

\* C11: in every Guide state with a non-empty snapshot the column cursor is
\* within the events of the selected row: 0 <= column <= len(events) - 1 (it is
\* clamped when a row change lands on a row with fewer events).
C11_ColumnInRow ==
    (InGuide /\ guide_rows # <<>>) =>
        (0 <= g_sel_col /\ g_sel_col <= Len(CursorEvents) - 1)

\* the commands that move the guide cursor one row down / up
PageDownCmds == {"/menu/nav/pagedown", "Key_PageDown", "Key_Down"}
PageUpCmds == {"/menu/nav/pageup", "Key_PageUp", "Key_Up"}

\* a command is taken up while the guide shows a non-empty snapshot
GuideStep == cmd = "idle" /\ InGuide /\ guide_rows # <<>> /\ cmd' # "idle"

\* C12: in Guide mode a vertical move changes the row cursor by exactly 1
\* clamped to [0, rowCount-1]; the viewport offset changes only when the new row
\* lies outside [offset, offset+N-1], and then to the nearest offset that holds
\* it; in every Guide state offset <= row <= offset + N - 1, N = GUIDE_MAX_ROWS.
C12_RowWindow ==
    /\ [](InGuide =>
            /\ 0 <= g_row_offset /\ g_row_offset <= g_sel_row
            /\ g_sel_row <= g_row_offset + GUIDE_MAX_ROWS - 1
            /\ guide_rows # <<>> => g_sel_row <= Len(guide_rows) - 1)
    /\ [][ (GuideStep /\ cmd' \in PageDownCmds) =>
              /\ g_sel_row' = Min2(Len(guide_rows) - 1, g_sel_row + 1)
              /\ g_row_offset' = IF g_sel_row' > g_row_offset + GUIDE_MAX_ROWS - 1
                                 THEN g_sel_row' - (GUIDE_MAX_ROWS - 1)
                                 ELSE g_row_offset ]_vars
    /\ [][ (GuideStep /\ cmd' \in PageUpCmds) =>
              /\ g_sel_row' = Max2(0, g_sel_row - 1)
              /\ g_row_offset' = IF g_sel_row' < g_row_offset
                                 THEN g_sel_row'
                                 ELSE g_row_offset ]_vars

\* a move up scrolled the viewport back by one, after moves down had scrolled
\* it to the last of more than GUIDE_MAX_ROWS rows
C12_Witness ==
    /\ cmd = "/menu/nav/pageup" /\ InGuide
    /\ Len(guide_rows) > GUIDE_MAX_ROWS
    /\ g_sel_row = 1 /\ g_row_offset = 1

\* the guide navigation commands: left, right, page up, page down
GuideNavCmds ==
    PageDownCmds \cup PageUpCmds
    \cup {"/menu/nav/left", "/menu/nav/right", "Key_Left", "Key_Right"}

\* the guide cursor is (row, column, offset) = (0, 0, 0)
CursorAtOrigin == g_sel_row = 0 /\ g_sel_col = 0 /\ g_row_offset = 0

\* no signal to a helper process and no spawn among what a command did
NoProcessOps(l) ==
    \A i \in DOMAIN l : l[i].op \notin {"terminate", "kill", "spawn_preview", "spawn_audio"}

\* C13: with an empty snapshot the guide is entered with the cursor at (0,0,0)
\* and without re-anchoring the preview or the footer; every guide navigation
\* command after that leaves the cursor at (0,0,0), changes nothing and is
\* answered without an error.
C13_EmptyGuide ==
    /\ []((InGuide /\ guide_rows = <<>>) => CursorAtOrigin)
    /\ [][ (cmd = "idle" /\ visible /\ cmd' \notin ({"idle"} \cup GuideNavCmds)
            /\ visible' /\ mode' = "guide" /\ guide_rows' = <<>>
            /\ (mode = "root" \/ cmd' = "/menu/guide")) =>
              /\ CursorAtOrigin'
              /\ preview_proc' = preview_proc
              /\ footer' = footer
              /\ NoProcessOps(log')
              /\ resp'.ok ]_vars
    /\ [][ (cmd = "idle" /\ InGuide /\ guide_rows = <<>> /\ cmd' \in GuideNavCmds) =>
              /\ ProgState' = ProgState
              /\ log' = <<>>
              /\ resp'.ok /\ resp'.code \in {0, 200} ]_vars

\* a move down in the guide entered on an empty snapshot, the preview of the
\* root menu still running
C13_Witness ==
    /\ cmd = "/menu/nav/pagedown" /\ pre.visible /\ pre.mode = "guide"
    /\ InGuide /\ guide_rows = <<>> /\ CursorAtOrigin
    /\ IsLive(preview_proc) /\ resp.ok

\* a command enters the guide: confirm on "TV Guide" in Root mode, or the
\* direct request
GuideEntry ==
    /\ cmd = "idle" /\ visible /\ cmd' # "idle"
    /\ visible' /\ mode' = "guide"
    /\ mode = "root" \/ cmd' = "/menu/guide"

\* the current path and offset of channel ch in the store, with its media file
\* on disk (None: nothing to play)
Playable(ch) ==
    LET pair == resolve_now_path_and_offset(db, TRUE, ch, now)
    IN  IF pair = None THEN None
        ELSE IF pair[1] \notin MediaFiles THEN None
        ELSE pair

\* C14: entering the guide with a non-empty snapshot sets mode Guide, resets
\* (row, column, offset) to (0,0,0), puts the footer on the first row's channel
\* and anchors the preview to the first row: a live preview after the entry
\* plays the current path of the first row's channel at its offset. The direct
\* request leaves the root cursor and the last-selected index unchanged.
C14_EnterGuide ==
    [][ (GuideEntry /\ guide_rows' # <<>>) =>
          /\ CursorAtOrigin'
          /\ footer' = [shown |-> TRUE, ch_num |-> guide_rows'[1].id,
                        ch_name |-> guide_rows'[1].name]
          /\ IsLive(preview_proc') =>
                /\ Playable(guide_rows'[1].id) # None
                /\ preview_proc' = << Proc(Playable(guide_rows'[1].id)[1],
                                           Playable(guide_rows'[1].id)[2]) >>
          /\ cmd' = "/menu/guide" => (sel' = sel /\ sel_last' = sel_last) ]_vars

\* what a guide entry does to the cursors, the footer and the root cursor,
\* whatever becomes of the preview
EnterGuideFrame ==
    [][ (GuideEntry /\ guide_rows' # <<>>) =>
          /\ CursorAtOrigin'
          /\ footer' = [shown |-> TRUE, ch_num |-> guide_rows'[1].id,
                        ch_name |-> guide_rows'[1].name]
          /\ cmd' = "/menu/guide" => (sel' = sel /\ sel_last' = sel_last) ]_vars

\* a vertical move takes the guide cursor to another row
RowChange ==
    /\ GuideStep /\ cmd' \in PageDownCmds \cup PageUpCmds
    /\ g_sel_row' # g_sel_row

\* the channel of the row the guide cursor is on after the step
NewCursorChannel == guide_rows'[g_sel_row' + 1].id

\* C15: when the guide cursor's row changes, and on guide entry, the preview is
\* restarted on the new channel's current path and offset; when that cannot be
\* resolved (no current row, empty path, media file missing) the preview is
\* left stopped. So a preview that is live after the step was spawned by the
\* step, on the path and offset of the new channel.
C15_NoStalePreview ==
    [][ (RowChange \/ (GuideEntry /\ guide_rows' # <<>>)) =>
          (IsLive(preview_proc') =>
              /\ Playable(NewCursorChannel) # None
              /\ preview_proc' = << Proc(Playable(NewCursorChannel)[1],
                                         Playable(NewCursorChannel)[2]) >>
              /\ \E i \in DOMAIN log' : log'[i].op = "spawn_preview") ]_vars

\* the item a select or activate argument names: an index in 0 .. itemCount-1
\* or a label spelled as in the menu (None: no item)
SelectTarget(key) ==
    CASE key \in {"0", "Live TV"}  -> <<0>>
      [] key \in {"1", "TV Guide"} -> <<1>>
      [] key \in {"2", "Planner"}  -> <<2>>
      [] key \in {"3", "OnDemand"} -> <<3>>
      [] OTHER -> None

\* the menu state but for the root cursor and the last-selected index
ProgStateButSel ==
    << visible, mode, guide_rows, g_sel_row, g_sel_col, g_row_offset,
       preview_proc, audio_proc, footer, orphans >>

\* C16: on the visible menu selectItem succeeds exactly when its argument is an
\* index in 0 .. itemCount-1 or a label equal, case-sensitively, to a menu item;
\* on success the root cursor and the last-selected index are that item and
\* nothing else changes, so that a repeated selectItem changes nothing; on
\* failure the menu state is unchanged and the answer reports the failure.
C16_SelectItem ==
    [][ \A key \in SelectKeys :
          (cmd = "idle" /\ visible /\ cmd' = "/menu/select/" \o key) =>
              /\ log' = <<>>
              /\ ProgStateButSel' = ProgStateButSel
              /\ IF SelectTarget(key) # None
                 THEN /\ resp'.ok
                      /\ sel' = SelectTarget(key)[1]
                      /\ sel_last' = SelectTarget(key)[1]
                      /\ (sel = sel' /\ sel_last = sel') => ProgState' = ProgState
                 ELSE /\ ~resp'.ok
                      /\ sel' = sel /\ sel_last' = sel_last ]_vars

\* selectItem("TV Guide") answered ok with the cursor moved from item 3 to item 1
C16_Witness ==
    /\ cmd = "/menu/select/TV Guide" /\ pre.visible /\ pre.sel = 3
    /\ resp.ok /\ sel = 1 /\ sel_last = 1

\* the state a request ends in becomes the state the next request starts from
Returned(x) == [x EXCEPT !.log = <<>>, !.resp = NoResp]

\* the states a sequence of requests <<path, key>> can end in, from state s
RECURSIVE AfterRequests(_, _)
AfterRequests(s, reqs) ==
    IF reqs = <<>> THEN {s}
    ELSE UNION { AfterRequests(Returned(x), Tail(reqs))
                 : x \in do_POST(s, reqs[1][1], reqs[1][2]) }

\* n times the request <<path, "">>
Times(path, n) == [i \in 1..n |-> <<path, "">>]

\* the sequences of navigate requests that move the root cursor to "TV Guide"
NavToGuide ==
    { Times("/menu/nav/down", (1 - sel) % ItemCount),
      Times("/menu/nav/up", (sel - 1) % ItemCount) }

\* C17: in Root mode selectItem("TV Guide") followed by activateItem with no
\* argument ends in Guide mode, in exactly the states (menu state and requests
\* sent) that navigating the root cursor to "TV Guide" and confirming ends in;
\* activateItem on the selected "TV Guide" enters the guide; activateItem with
\* an argument that names no item confirms nothing, changes nothing and answers
\* "no such item".
C17_SelectActivate ==
    /\ []((cmd = "idle" /\ visible /\ mode = "root") =>
            LET bySelect == AfterRequests(Cur, << <<"/menu/select/", "TV Guide">>,
                                                  <<"/menu/activate/", "">> >>)
            IN  /\ \A x \in bySelect : x.visible /\ x.mode = "guide" /\ x.sel = 1
                /\ \A nav \in NavToGuide :
                      bySelect = AfterRequests(Cur, nav \o << <<"/menu/enter", "">> >>))
    /\ []((cmd = "/menu/activate/" /\ pre.visible /\ pre.mode = "root"
           /\ MENU_ITEMS[pre.sel + 1] = "TV Guide") => InGuide)
    /\ [][ \A key \in SelectKeys :
             (cmd = "idle" /\ visible /\ cmd' = "/menu/activate/" \o key
              /\ key # "" /\ SelectTarget(key) = None) =>
                 /\ ProgState' = ProgState
                 /\ log' = <<>>
                 /\ resp' = Resp(200, FALSE, "no such item") ]_vars

\* activateItem with no argument, with "TV Guide" selected in Root mode, entered
\* the guide on a loaded snapshot
C17_Witness ==
    /\ cmd = "/menu/activate/" /\ pre.visible /\ pre.mode = "root"
    /\ MENU_ITEMS[pre.sel + 1] = "TV Guide"
    /\ InGuide /\ guide_rows # <<>> /\ resp = Ok("activated")

\* a remote request has been answered (key events have no answer: code 0)
Answered == cmd # "idle" /\ resp.code # 0

\* C18: every remote command is answered with a success/failure indicator, and
\* every failure answer names its reason (info: the text of the answer's error
\* field, empty when the answer has none).
C18_FailuresNameReason ==
    Answered =>
        /\ resp.ok \in BOOLEAN
        /\ ~resp.ok => resp.info # ""

\* the store has been asked about a channel
Asked == query.ch # ""

\* the rows of the asked channel that have started and not ended
Running == { r \in db : r.channel_id = query.ch /\ r.start_utc <= now /\ now < r.end_utc }

\* the rows of the asked channel that start later
Later == { r \in db : r.channel_id = query.ch /\ now < r.start_utc }

\* C19: the current event of a channel at instant now is the row with the
\* greatest start <= now among the rows with end > now, and none when no row
\* qualifies; for the single row (A, 100, 200): A at now = 100 and 150, none at
\* now = 200 and 250. The menu's resolver and the overlay's now-row query select
\* the same row, and the resolver answers that row's path with the offset
\* now - start (nothing when the path is empty).
C19_CurrentEvent ==
    Asked =>
        /\ (query.row = None) = (Running = {})
        /\ query.row # None =>
              /\ query.row[1] \in Running
              /\ \A r \in Running : r.start_utc <= query.row[1].start_utc
        /\ query.overlay[1] = query.row
        /\ query.menu = IF query.row = None THEN None
                        ELSE IF query.row[1].path = "" THEN None
                        ELSE << query.row[1].path, now - query.row[1].start_utc >>
        /\ (db = { Row("1", 100, 200, "a.mp4", "A") } /\ query.ch = "1") =>
              /\ now \in {100, 150} => query.row = << Row("1", 100, 200, "a.mp4", "A") >>
              /\ now \in {200, 250} => query.row = None

\* of two rows running at now = 150 the one that started later is the current one
C19_Witness ==
    /\ Asked /\ query.ch = "1" /\ now = 150
    /\ Row("1", 100, 200, "a.mp4", "A") \in db
    /\ query.row = << Row("1", 150, 300, "b.mp4", "B") >>
    /\ query.menu = << "b.mp4", 0 >>

\* C20: the overlay's next event of a channel at instant now is the row with
\* the smallest start > now, whether or not a current event exists and whatever
\* its title, and none when no row starts after now.
C20_NextEvent ==
    Asked =>
        /\ (query.overlay[2] = None) = (Later = {})
        /\ query.overlay[2] # None =>
              /\ query.overlay[2][1] \in Later
              /\ \A r \in Later : query.overlay[2][1].start_utc <= r.start_utc

\* the next event has the title of the current one
C20_Witness ==
    /\ Asked /\ query.overlay[1] # None /\ query.overlay[2] # None
    /\ query.overlay[1][1].title = query.overlay[2][1].title

\* the events of the guide snapshot taken with the answer
SnapshotEvents ==
    UNION { { query.guide[i].events[j] : j \in DOMAIN query.guide[i].events } :
            i \in DOMAIN query.guide }

\* every event of the guide snapshot ends after it starts, a row of the store
\* with end <= start appearing with end = start + 60
GuideEventsClamped ==
    /\ \A e \in SnapshotEvents : e.end > e.start
    /\ \A i \in DOMAIN query.guide :
         \A r \in { q \in db : q.channel_id = query.guide[i].id /\ q.end_utc > now
                                /\ q.end_utc <= q.start_utc } :
            \E j \in DOMAIN query.guide[i].events :
               /\ query.guide[i].events[j].start = r.start_utc
               /\ query.guide[i].events[j].end = r.start_utc + 60

\* the now-row of the overlay, and the start and end a poll keeps of it, end
\* after start
OverlayNowOrdered ==
    /\ query.overlay[1] # None =>
          query.overlay[1][1].end_utc > query.overlay[1][1].start_utc
    /\ (query.tick # None /\ query.tick[1].now_start # None
          /\ query.tick[1].now_end # None) =>
          query.tick[1].now_end[1] > query.tick[1].now_start[1]

\* the next row of the overlay ends after it starts
OverlayNextOrdered ==
    query.overlay[2] # None =>
        query.overlay[2][1].end_utc > query.overlay[2][1].start_utc

\* C21: a store row with end <= start is corrected to end = start + 60 before
\* any consumer sees it: every event of a guide snapshot, and every row handed
\* to the overlay (its now row with the start and end a poll keeps, and its
\* next row), has end > start.
C21_EndAfterStart ==
    Asked => GuideEventsClamped /\ OverlayNowOrdered /\ OverlayNextOrdered

\* the rows of channel ch that have not ended at now
Qualifying(ch) == { r \in db : r.channel_id = ch /\ r.end_utc > now }

\* the placeholder event of a channel without qualifying rows
Placeholder == [title |-> "-", start |-> now, end |-> now + 3600]

\* C22: in a guide snapshot taken at instant now every channel of the store is
\* present with a non-empty event list; a channel with no row ending after now
\* has exactly one event, the placeholder with start = now and end = now + 3600,
\* and a channel with such rows has one event per row (up to six), none of them
\* a placeholder added to them.
C22_NeverEmptyRow ==
    (Asked /\ query.db_ok) =>
        /\ { query.guide[i].id : i \in DOMAIN query.guide } = { r.channel_id : r \in db }
        /\ \A i \in DOMAIN query.guide :
              LET ev == query.guide[i].events
                  Q  == Qualifying(query.guide[i].id)
              IN  /\ Len(ev) >= 1
                  /\ Q = {} => ev = << Placeholder >>
                  /\ Q # {} => Len(ev) = Min2(Cardinality(Q), 6)

\* channel 1 has rows, all of them ended at now = 300: its row of the guide is
\* the placeholder [300, 3900)
C22_Witness ==
    /\ Asked /\ query.db_ok /\ now = 300
    /\ \E r \in db : r.channel_id = "1"
    /\ \E i \in DOMAIN query.guide :
          /\ query.guide[i].id = "1"
          /\ query.guide[i].events = << [title |-> "-", start |-> 300, end |-> 3900] >>

\* the guide row of the asked channel, none when the channel has no row in the
\* snapshot
AskedGuideRow ==
    LET I == { i \in DOMAIN query.guide : query.guide[i].id = query.ch }
    IN  IF I = {} THEN None ELSE << query.guide[CHOOSE i \in I : TRUE] >>

\* channels in ascending numeric order of their identifiers, the events of a
\* channel in ascending order of start, six at most
SnapshotOrdered ==
    /\ \A i, j \in DOMAIN query.guide :
          i < j => CastInteger(query.guide[i].id) < CastInteger(query.guide[j].id)
    /\ \A i \in DOMAIN query.guide :
          LET ev == query.guide[i].events
          IN  /\ Len(ev) <= 6
              /\ \A a, b \in DOMAIN ev : a < b => ev[a].start < ev[b].start

\* the events of the asked channel are its current event, then the rows that
\* start after now in the order of their starts, five of them at most
CurrentThenNextFive ==
    (AskedGuideRow # None /\ query.row # None) =>
        LET ev == AskedGuideRow[1].events
        IN  /\ ev[1].start = query.row[1].start_utc
            /\ Len(ev) = 1 + Min2(Cardinality(Later), 5)
            /\ \A k \in 2..Len(ev) :
                  /\ \E r \in Later : r.start_utc = ev[k].start
                  /\ \A r \in Later :
                        r.start_utc < ev[k].start => \E m \in 2..k : ev[m].start = r.start_utc

\* C23: in a guide snapshot the channels are in ascending order of the numeric
\* value of their identifier, the events of a channel are in ascending order of
\* start, and a channel holds at most six events: its current event followed by
\* the next five.
C23_SnapshotOrder ==
    (Asked /\ query.db_ok) => SnapshotOrdered /\ CurrentThenNextFive

\* an access to the store failed while the command ran: any of them, and the
\* load of the guide snapshot
StoreFailed(l) == \E i \in DOMAIN l : l[i].op = "store"
GuideLoadFailed(l) == \E i \in DOMAIN l : l[i] = Ev("store", "guide", 0, "")

\* the commands that open the menu from the state they start in
OpensMenu(c) ==
    \/ c = "/menu/open"
    \/ c \in {"/menu/toggle", "Key_Home"} /\ ~visible

\* what a poll of a freshly started overlay leaves when the store fails and the
\* player answers ans with a channel: the player's title for NOW, no NEXT
\* title, no start and end, the channel taken over and the info bar shown
TickWithoutStore(ans) ==
    LET o == tick(OverlayInit, db, FALSE, ans, now)
    IN  /\ o.current_title = clean_title(ans[1].title)
        /\ o.next_title = ""
        /\ o.now_start = None /\ o.now_end = None
        /\ o.current_channel = ans[1].channel
        /\ o.infobar_visible

\* C24: a failure of the schedule store is turned into "no data" and never
\* propagates. A command that opens the menu while the store fails ends with
\* the menu visible in Root mode and starts no preview; a guide entry whose
\* snapshot load fails ends in Guide mode on the empty snapshot with the cursors
\* at the origin and an answer of success; every navigate(up/down) command in
\* Root mode moves the cursor by one; and a poll of the overlay completes with
\* the player's title and no schedule data.
C24_StoreFailure ==
    [][ /\ (cmd = "idle" /\ OpensMenu(cmd') /\ StoreFailed(log')) =>
              /\ visible' /\ mode' = "root" /\ sel' = sel_last
              /\ preview_proc' = preview_proc
              /\ ~visible => preview_proc' = None
              /\ \A i \in DOMAIN log' : log'[i].op # "spawn_preview"
              /\ resp'.ok
        /\ (cmd = "idle" /\ GuideLoadFailed(log')) =>
              /\ visible' = visible /\ mode' = "guide" /\ guide_rows' = <<>>
              /\ g_sel_row' = 0 /\ g_sel_col' = 0 /\ g_row_offset' = 0
              /\ preview_proc' = preview_proc
              /\ resp'.ok
        /\ (cmd = "idle" /\ visible /\ mode = "root") =>
              /\ cmd' \in {"/menu/nav/down", "Key_Down"} => sel' = (sel + 1) % ItemCount
              /\ cmd' \in {"/menu/nav/up", "Key_Up"} => sel' = (sel - 1) % ItemCount
        /\ \A a \in OverlayAnswers("1") : _read_status(a) # None => TickWithoutStore(a)
      ]_vars

\* the menu has been opened from Hidden while the player reported channel 1 and
\* the store failed: visible, Root mode, no preview although channel 1 has a
\* playable current event
C24_Witness ==
    /\ cmd = "/menu/open" /\ ~pre.visible
    /\ StoreFailed(log) /\ \E i \in DOMAIN log : log[i] = Ev("GET", "/status", 200, "1")
    /\ visible /\ mode = "root" /\ preview_proc = None
    /\ resolve_now_path_and_offset(db, TRUE, "1", now) # None

\* the four remote navigation commands besides up and down
SideCmds == {"/menu/nav/left", "/menu/nav/right", "/menu/nav/pageup", "/menu/nav/pagedown"}

\* the step of the remote command c has exactly the effect of path on the state
\* it starts from: the same menu state, the same requests, the same answer
SameEffectAs(path) ==
    \E x \in do_POST(Cur, path, "") :
        /\ ProgState' = << x.visible, x.mode, x.sel, x.sel_last, x.guide_rows, x.g_sel_row,
                           x.g_sel_col, x.g_row_offset, x.preview_proc, x.audio_proc,
                           x.footer, x.orphans >>
        /\ log' = x.log /\ resp' = x.resp

\* C25: for remote commands on the visible menu in Root mode, nav.left and
\* nav.pageUp have exactly the effect of nav.up and nav.right and nav.pageDown
\* exactly that of nav.down, a single step modulo the item count; in Guide mode
\* the four commands leave the root cursor and the last-selected index as they
\* are and move the guide cursor only: left and right the column, page up and
\* page down the row.
C25_RootAliases ==
    [][ (cmd = "idle" /\ visible /\ cmd' \in SideCmds) =>
          /\ mode = "root" =>
                /\ cmd' \in {"/menu/nav/left", "/menu/nav/pageup"} =>
                      /\ SameEffectAs("/menu/nav/up")
                      /\ sel' = (sel - 1) % ItemCount
                /\ cmd' \in {"/menu/nav/right", "/menu/nav/pagedown"} =>
                      /\ SameEffectAs("/menu/nav/down")
                      /\ sel' = (sel + 1) % ItemCount
                /\ sel_last' = sel'
                /\ << g_sel_row', g_sel_col', g_row_offset' >> = << g_sel_row, g_sel_col, g_row_offset >>
          /\ mode = "guide" =>
                /\ sel' = sel /\ sel_last' = sel_last /\ mode' = "guide"
                /\ cmd' \in {"/menu/nav/left", "/menu/nav/right"} =>
                      /\ g_sel_row' = g_sel_row
                      /\ g_sel_col' = IF cmd' = "/menu/nav/left" THEN Max2(0, g_sel_col - 1)
                                      ELSE IF guide_rows = <<>> THEN g_sel_col
                                      ELSE Min2(Max2(0, Len(CursorEvents) - 1), g_sel_col + 1)
                /\ cmd' \in {"/menu/nav/pageup", "/menu/nav/pagedown"} =>
                      /\ g_sel_col' = g_sel_col
                      /\ g_sel_row' = IF guide_rows = <<>> THEN g_sel_row
                                      ELSE IF cmd' = "/menu/nav/pageup" THEN Max2(0, g_sel_row - 1)
                                      ELSE Min2(Len(guide_rows) - 1, g_sel_row + 1)
      ]_vars

\* nav.pageDown in Root mode has moved the cursor from the last item to the
\* first: one step with wrap-around, where the PageDown key moves two
C25_Witness ==
    /\ cmd = "/menu/nav/pagedown" /\ pre.visible /\ pre.mode = "root"
    /\ pre.sel = ItemCount - 1 /\ sel = 0 /\ sel_last = 0

\* the live processes a thread holds between Popen and the assignment to proc
HeldBy(t, step) ==
    IF thr[t].op # "idle" /\ Steps(thr[t].op)[thr[t].i] = step /\ IsLive(thr[t].p)
    THEN 1 ELSE 0

\* the preview and the audio processes that are running
LivePreviews ==
    (IF IsLive(preview_proc) THEN 1 ELSE 0) + orphans.preview
    + HeldBy("http", "pv_assign") + HeldBy("ui", "pv_assign")

LiveAudios ==
    (IF IsLive(audio_proc) THEN 1 ELSE 0) + orphans.audio
    + HeldBy("http", "au_assign") + HeldBy("ui", "au_assign")

\* at most one thread is in the middle of a command
CommandsExclusive == thr.http.op = "idle" \/ thr.ui.op = "idle"

\* never two live previews or two live audios, and no live process whose handle
\* has been overwritten
NoDoubleProcess == LivePreviews <= 1 /\ LiveAudios <= 1 /\ NoOrphans

\* C26: the commands of the transport worker and of the UI thread are applied
\* one after the other, never with their statements interleaved, so that there
\* are never two live preview (or two live audio) processes and no handle that
\* refers to a live process is overwritten.
C26_MutualExclusion == CommandsExclusive /\ NoDoubleProcess

\* both threads have returned
BothReturned == thr.http.op = "idle" /\ thr.ui.op = "idle"

\* C27: when a close has raced with an open in flight and both have returned,
\* the close having been taken up last and having returned last, the menu is
\* Hidden and neither the preview handle nor the audio handle owns a live
\* process.
C27_CloseWins ==
    (BothReturned /\ thr.last = "close" /\ thr.fin = "close") =>
        /\ ~visible
        /\ ~IsLive(preview_proc)
        /\ ~IsLive(audio_proc)

\* the path the channel last pushed to the footer is playing at now, none when
\* the footer names no channel or the channel has no playable current event
FooterChannelPath ==
    IF footer.ch_num = "" THEN None
    ELSE LET pair == resolve_now_path_and_offset(db, TRUE, footer.ch_num, now)
         IN  IF pair = None THEN None ELSE << pair[1] >>

\* C28: the preview and the footer are anchored to the same channel: in every
\* visible state a running preview plays the current content of the channel
\* whose identifier and name were last pushed to the footer.
C28_PreviewMatchesFooter ==
    (visible /\ IsLive(preview_proc)) =>
        FooterChannelPath = << preview_proc[1].path >>

\* the local unpause and unmute of mpv_pause_off, at positions i and i + 1
IpcResumeAt(i) ==
    /\ i + 1 = Len(log)
    /\ log[i] = Ev("ipc", "pause", 0, "")
    /\ log[i + 1] = Ev("ipc", "mute", 0, "")

\* what follows the go-live request at position i
ResumeAfter(i) ==
    IF log[i].n = 200 THEN i = Len(log)
    ELSE /\ i + 1 <= Len(log)
         /\ log[i + 1].op = "GET" /\ log[i + 1].a = "/status"
         /\ IF log[i + 1].n = 200
            THEN /\ i + 2 <= Len(log)
                 /\ log[i + 2].op = "POST" /\ log[i + 2].a = ZapUrl(log[i + 1].v)
                 /\ IpcResumeAt(i + 3)
            ELSE IpcResumeAt(i + 2)

\* C29: resume-live sends the go-live request first; when it succeeds nothing
\* follows, no status request, no tune and no local message; when it fails the
\* status is fetched and, if it names a channel, that channel is tuned; when the
\* status is unavailable, and also after the tune whatever its answer, the
\* player is unpaused and unmuted over the local channel. Every command that
\* closes the menu resumes live exactly once.
C29_ResumeLive ==
    /\ \A i \in DOMAIN log : IsLiveReq(log[i]) => ResumeAfter(i)
    /\ Cardinality({ i \in DOMAIN log : IsLiveReq(log[i]) }) <= 1
    /\ (cmd # "idle" /\ pre.visible /\ ~visible) => \E i \in DOMAIN log : IsLiveReq(log[i])

\* a close whose go-live request failed, whose status named channel 1 and whose
\* tune of channel 1 failed too: the local unpause and unmute end it
C29_Witness ==
    /\ cmd = "/menu/close" /\ pre.visible /\ ~visible /\ Len(log) >= 5
    /\ log[Len(log) - 4] = Ev("POST", "/live", 0, "")
    /\ log[Len(log) - 3] = Ev("GET", "/status", 200, "1")
    /\ log[Len(log) - 2] = Ev("POST", ZapUrl("1"), 0, "")
    /\ IpcResumeAt(Len(log) - 1)

\* the pause request, POST /pause, and the local pause message
IsPauseReq(e) == e.op = "POST" /\ e.a = "/pause"
IsIpcPause(e) == e = Ev("ipc", "pause", 1, "")

\* in the log l the local pause and mute follow a pause request exactly when
\* that request was not answered with success, and are sent at no other point
PauseFallback(l) ==
    /\ \A i \in DOMAIN l : IsPauseReq(l[i]) =>
          IF l[i].n = 200
          THEN i + 1 \in DOMAIN l => ~IsIpcPause(l[i + 1])
          ELSE /\ i + 2 \in DOMAIN l
               /\ l[i + 1] = Ev("ipc", "pause", 1, "")
               /\ l[i + 2] = Ev("ipc", "mute", 1, "")
    /\ \A i \in DOMAIN l : IsIpcPause(l[i]) =>
          (i > 1 /\ IsPauseReq(l[i - 1]) /\ l[i - 1].n # 200)

\* a confirm in Guide mode on a non-empty snapshot is the tune request for the
\* cursor's channel, whatever its answer, followed by exactly what close_menu
\* does from the same state
TuneThenClose ==
    \E x \in close_menu(Cur) :
        /\ Len(log') = Len(x.log) + 1
        /\ IsZap(log'[1]) /\ log'[1].a = ZapUrl(_guide_current_channel_id(Cur))
        /\ \A i \in DOMAIN x.log : log'[i + 1] = x.log[i]
        /\ ~visible' /\ preview_proc' = x.preview_proc /\ audio_proc' = x.audio_proc
        /\ orphans' = x.orphans

\* C30: pause() sends the local pause and mute exactly when its request to the
\* player did not succeed. tune() has no local fallback: a confirm in Guide mode
\* sends the tune request and, whether it succeeds or fails, nothing else on
\* its behalf, and goes on to close the menu as it would from the same state.
C30_PauseAndTune ==
    [][ /\ PauseFallback(log')
        /\ (cmd = "idle" /\ cmd' \in ConfirmCmds /\ visible /\ mode = "guide"
              /\ guide_rows # <<>>) => TuneThenClose
      ]_vars

\* a confirm in Guide mode whose tune request failed: the menu is closed all
\* the same and no local message was sent for the tune
C30_Witness ==
    /\ cmd \in ConfirmCmds /\ pre.visible /\ pre.mode = "guide" /\ guide_rows # <<>>
    /\ Len(log) >= 2 /\ IsZap(log[1]) /\ log[1].n = 0
    /\ log[2].op # "ipc"
    /\ ~visible

\* the local unpause and unmute are in the log l
IpcResumed(l) ==
    \E i \in DOMAIN l : i > 1 /\ l[i - 1] = Ev("ipc", "pause", 0, "")
                              /\ l[i] = Ev("ipc", "mute", 0, "")

\* C31: the menu never leaves the player muted: when the player is paused and
\* muted through the local channel (the pause request of open() having failed),
\* the command that closes the menu sends the local unpause and unmute,
\* whatever the answers to its go-live, status and tune requests.
C31_NeverLeftMuted ==
    [][ (cmd = "idle" /\ ipc_muted /\ visible /\ ~visible') =>
            (IpcResumed(log') /\ ~ipc_muted') ]_vars

\* the signals stop() may send to the live process of handle what: the request
\* to terminate alone when the process exits within the wait, followed by the
\* kill when it does not
StopSignals(what) ==
    { << Ev("terminate", what, 0, "") >>,
      << Ev("terminate", what, 0, ""), Ev("kill", what, 0, "") >> }

\* C32: stop() on the preview and on the audio handle is graceful-then-forced:
\* for a running process it requests termination and, when the process has not
\* exited within the wait, kills it; afterwards the handle is Idle and no
\* process is left running. On a handle without a running process stop() sends
\* no signal and leaves the handle Idle, so that a second stop() changes
\* nothing. The stops of a close are these, audio first.
C32_GracefulThenForced ==
    /\ [](/\ \A x \in stop_preview(Cur) :
                /\ x.preview_proc = None /\ x.orphans = orphans
                /\ stop_preview(x) = {x}
          /\ { x.log : x \in stop_preview(Cur) } =
                IF IsLive(preview_proc) THEN StopSignals("preview") ELSE { <<>> }
          /\ \A x \in menu_audio_stop(Cur) :
                /\ x.audio_proc = None /\ x.orphans = orphans
                /\ menu_audio_stop(x) = {x}
          /\ { x.log : x \in menu_audio_stop(Cur) } =
                IF IsLive(audio_proc) THEN StopSignals("audio") ELSE { <<>> })
    /\ [][ (cmd = "idle" /\ cmd' \in CloseCmds) =>
              \E a \in menu_audio_stop(Cur) : \E b \in stop_preview(a) :
                  /\ Len(log') > Len(b.log)
                  /\ \A i \in DOMAIN b.log : log'[i] = b.log[i]
                  /\ ~IsStop(log'[Len(b.log) + 1])
                  /\ preview_proc' = None /\ audio_proc' = None ]_vars

\* a close has stopped a running preview that did not exit within the wait:
\* terminate, then kill, and the handle is Idle
C32_Witness ==
    /\ cmd = "/menu/close" /\ IsLive(pre.preview) /\ preview_proc = None
    /\ \E i \in DOMAIN log : /\ i > 1
                             /\ log[i - 1] = Ev("terminate", "preview", 0, "")
                             /\ log[i] = Ev("kill", "preview", 0, "")

\* Popen raised for the process of handle what while the command ran, at
\* position i of the log l
PopenErrorAt(l, what, i) == i \in DOMAIN l /\ l[i] = Ev("popen_error", what, 0, "")

\* the process of handle what that was live before the step was signalled to
\* terminate before position i of the log of the step
StoppedBefore(l, what, i) ==
    \E j \in 1..(i - 1) : l[j] = Ev("terminate", what, 0, "")

\* the command of the step made its transition: an open ends visible in Root
\* mode on the remembered item, a guide entry in Guide mode at the origin, a
\* vertical guide move on the neighbouring row with that row's channel in the
\* footer
TransitionMade ==
    /\ resp'.ok
    /\ OpensMenu(cmd') =>
          /\ visible' /\ mode' = "root" /\ sel' = sel_last
    /\ (visible /\ mode' = "guide" /\ (mode = "root" \/ cmd' = "/menu/guide")) =>
          /\ visible' /\ CursorAtOrigin' /\ guide_rows' # <<>>
          /\ footer'.ch_num = guide_rows'[1].id
    /\ (visible /\ mode = "guide" /\ cmd' \in PageDownCmds \cup PageUpCmds) =>
          /\ mode' = "guide"
          /\ g_sel_row' = IF cmd' \in PageDownCmds
                          THEN Min2(Len(guide_rows) - 1, g_sel_row + 1)
                          ELSE Max2(0, g_sel_row - 1)
          /\ footer'.ch_num = guide_rows[g_sel_row' + 1].id

\* C33: a spawn failure in the start of the preview or of the audio is
\* swallowed: the handle is left Idle, owning no process, the process it owned
\* before having been stopped first and none left running unowned, and the
\* command that asked for the start (open, guide entry, vertical guide move)
\* still makes its transition and is answered with success.
C33_SpawnFailureSwallowed ==
    [][ /\ \A i \in DOMAIN log' :
              (cmd = "idle" /\ PopenErrorAt(log', "preview", i)
                 /\ \A j \in DOMAIN log' : j > i => log'[j].op # "spawn_preview") =>
                  /\ preview_proc' = None /\ orphans' = orphans
                  /\ IsLive(preview_proc) => StoppedBefore(log', "preview", i)
                  /\ TransitionMade
        /\ \A i \in DOMAIN log' :
              (cmd = "idle" /\ PopenErrorAt(log', "audio", i)) =>
                  /\ audio_proc' = None /\ orphans' = orphans
                  /\ IsLive(audio_proc) => StoppedBefore(log', "audio", i)
                  /\ TransitionMade
      ]_vars

\* a vertical move in the guide whose preview could not be spawned: the preview
\* of the row left behind has been stopped, the handle is Idle, the cursor and
\* the footer are on the new row
C33_Witness ==
    /\ cmd \in PageDownCmds /\ pre.visible /\ pre.mode = "guide" /\ IsLive(pre.preview)
    /\ \E i \in DOMAIN log : PopenErrorAt(log, "preview", i)
    /\ preview_proc = None
    /\ g_sel_row = 1 /\ footer.ch_num = guide_rows[2].id


\* C34: in every reachable state the Root cursor is a valid item index and the
\* remembered cursor equals it, whatever sequence of open, close, navigate,
\* confirm, select, activate, guide entry and raw keys led there.
C34_CursorInRange ==
    /\ 0 <= sel /\ sel < ItemCount
    /\ sel_last = sel

\* the menu is opened again after the cursor had wrapped upwards to the last
\* item before the menu was closed: both cursors are on the last item
C34_Witness ==
    /\ OpensMenu(cmd) /\ ~pre.visible /\ pre.sel_last = ItemCount - 1
    /\ visible /\ sel = ItemCount - 1 /\ sel_last = ItemCount - 1

\* the commands that always open the menu
OpenCmds == {"/menu/open"}

\* event e of handle what is in the part of log l after its first n entries
LoggedAfter(l, n, op, what) ==
    \E i \in DOMAIN l : i > n /\ l[i].op = op /\ l[i].a = what

\* what an open that starts from handles pv and au (n entries in the log
\* before it) and ends in state r has done to the helper processes: no process is
\* left running unowned, a live process that is no longer held was signalled to
\* terminate, and the audio handle holds a live process when the spawn
\* succeeded, nothing when Popen raised, and what it held before when the
\* track is missing
OpenProcesses(pv, au, orph, n, r) ==
    /\ r.orphans = orph
    /\ (IsLive(pv) /\ r.preview_proc # pv) => LoggedAfter(r.log, n, "terminate", "preview")
    /\ (IsLive(au) /\ r.audio_proc # au) => LoggedAfter(r.log, n, "terminate", "audio")
    /\ IF LoggedAfter(r.log, n, "spawn_audio", "audio") THEN r.audio_proc = << Proc("audio", 0) >>
       ELSE IF LoggedAfter(r.log, n, "popen_error", "audio") THEN r.audio_proc = None
       ELSE r.audio_proc = au

\* the state with the log of the command that led to it
CurLogged == [Cur EXCEPT !.log = log]

\* C35 (as the code has it): open always ends visible in Root mode on the
\* remembered item, also when applied in Guide mode, with at most one process
\* on each handle and none left unowned: the audio handle holds one live process
\* when its spawn succeeded and none when the spawn failed; an open applied to
\* the state an open leaves (visible, Root mode) leaves the menu state as it is
\* and replaces the processes, never adding a second one.
C35_OpenEndsInRoot ==
    [][ (cmd = "idle" /\ cmd' \in OpenCmds) =>
           /\ visible' /\ mode' = "root" /\ sel' = sel_last /\ sel_last' = sel_last
           /\ OpenProcesses(preview_proc, audio_proc, orphans, 0, CurLogged')
           /\ UNCHANGED << guide_rows, g_sel_row, g_sel_col, g_row_offset >>
           /\ (visible /\ mode = "root") =>
                  UNCHANGED << visible, mode, sel, sel_last >> ]_vars

\* an open applied in Guide mode with both processes live has ended in Root
\* mode with both processes replaced
C35_Witness ==
    /\ cmd \in OpenCmds /\ pre.visible /\ pre.mode = "guide"
    /\ IsLive(pre.preview) /\ IsLive(pre.audio)
    /\ mode = "root" /\ IsLive(preview_proc) /\ IsLive(audio_proc)
    /\ LoggedAfter(log, 0, "terminate", "preview") /\ LoggedAfter(log, 0, "terminate", "audio")

\* C35 as stated: every open ends in Root mode with exactly one audio process.
C35_Original ==
    [][ (cmd = "idle" /\ cmd' \in OpenCmds) =>
            (mode' = "root" /\ IsLive(audio_proc') /\ orphans' = orphans) ]_vars


\* C36: the guide and the preview agree on what is current: when the channel
\* asked about has a current event at the instant of the snapshot, the first
\* event of its guide row is that event, and the preview resolver seeks into
\* that same event.
C36_GuideAgreesWithPreview ==
    (Asked /\ query.db_ok /\ query.row # None /\ AskedGuideRow # None) =>
        LET first == AskedGuideRow[1].events[1]
        IN  /\ first = GuideEvent(query.row[1])
            /\ query.menu # None => query.menu[2] = now - first.start


\* the remote commands nav.up and nav.down
VerticalRemoteCmds == {"/menu/nav/up", "/menu/nav/down"}

\* the horizontal moves, of the remote control and of the keys
HorizontalCmds == {"/menu/nav/left", "/menu/nav/right", "Key_Left", "Key_Right"}

\* the column a horizontal move c ends on
ColumnAfter(c) ==
    IF c \in {"/menu/nav/left", "Key_Left"} THEN Max2(0, g_sel_col - 1)
    ELSE IF guide_rows = <<>> THEN g_sel_col
    ELSE Min2(Max2(0, Len(CursorEvents) - 1), g_sel_col + 1)

\* C37: in Guide mode the remote commands nav.up and nav.down change nothing
\* (Root cursor, guide cursor, viewport, snapshot, preview and footer), and a
\* horizontal move changes only the column cursor; neither sends anything to a
\* helper process or to the upstream player.
C37_GuideFrame ==
    [][ (cmd = "idle" /\ InGuide) =>
           /\ cmd' \in VerticalRemoteCmds =>
                 (ProgState' = ProgState /\ log' = <<>> /\ ipc_muted' = ipc_muted)
           /\ cmd' \in HorizontalCmds =>
                 /\ UNCHANGED << visible, mode, sel, sel_last, guide_rows, g_sel_row,
                                 g_row_offset, preview_proc, audio_proc, footer, orphans,
                                 ipc_muted >>
                 /\ log' = <<>>
                 /\ g_sel_col' = ColumnAfter(cmd') ]_vars

\* a move to the right in the guide has reached the second column of the row,
\* next to the live preview of that row
C37_Witness ==
    /\ cmd = "/menu/nav/right" /\ pre.visible /\ pre.mode = "guide"
    /\ g_sel_col = 1 /\ Len(CursorEvents) = 2
    /\ IsLive(preview_proc) /\ preview_proc = pre.preview


\* C38: the seek offset the resolver returns is now - start of the current
\* event of the channel and lies in 0 .. end - start - 1 of that event, the path
\* is the path of that event, and there is no result when the channel has no
\* current event or the current event has an empty path.
C38_SeekOffset ==
    Asked =>
        IF query.row = None \/ query.row[1].path = ""
        THEN query.menu = None
        ELSE /\ query.menu # None
             /\ query.menu[1] = query.row[1].path
             /\ query.menu[2] = now - query.row[1].start_utc
             /\ 0 <= query.menu[2]
             /\ query.menu[2] < query.row[1].end_utc - query.row[1].start_utc

\* the resolver was asked in the last second of the current event: the offset
\* is the greatest the event allows
C38_Witness ==
    /\ Asked /\ query.menu # None
    /\ query.menu[2] = query.row[1].end_utc - query.row[1].start_utc - 1
    /\ query.menu[2] > 0


\* the tick that led to this state got an answer of the player that names a
\* channel
StatusUsable ==
    cmd = "tick" /\ (IF query.ans = None THEN FALSE ELSE query.ans[1].channel # None)

\* the fields of the overlay other than the time left on the hide timer
OverlayFields ==
    << ov.current_channel, ov.current_name, ov.current_title, ov.next_title,
       ov.current_tag, ov.now_start, ov.now_end, ov.infobar_visible >>

\* the tick that led to this state called show_infobar
ShowObserved == \E i \in DOMAIN log : log[i].op = "show_infobar"

\* C39: a tick that observes a channel other than the overlay's current one
\* sets the current channel and name to the reported ones and shows the
\* infobar with the hide timer running; and unless ticks keep observing changes
\* that show the infobar again, the hide timer fires and the infobar is hidden.
C39_InfobarShownThenHidden ==
    /\ [][ (StatusUsable' /\ query'.ans[1].channel # ov.current_channel) =>
              /\ ov'.current_channel = query'.ans[1].channel
              /\ ov'.current_name = query'.ans[1].name
              /\ ov'.infobar_visible
              /\ ov'.hide_timer \in { << INFOBAR_MS >>, << (INFOBAR_MS * 6) \div 10 >> }
              /\ ShowObserved' ]_vars
    /\ ([]<>(~ov.infobar_visible)) \/ ([]<>ShowObserved)

\* the hide timer has fired after the overlay had shown the infobar for
\* channel 2
C39_Witness ==
    /\ cmd = "hide_timer" /\ ~ov.infobar_visible /\ ov.hide_timer = None
    /\ ov.current_channel = << "2" >> /\ ov.current_name = ChannelName("2")

\* C40: a tick without a usable player status (no answer, or no channel in it)
\* leaves the current channel, name, titles, tag, progress bounds and infobar
\* visibility as they were; a tick with a status but without a working store
\* completes with the player's title as the NOW title, no NEXT title and no
\* progress bounds.
C40_TickDegrades ==
    [][ cmd' = "tick" =>
           /\ ~StatusUsable' => OverlayFields' = OverlayFields
           /\ (StatusUsable' /\ ~query'.db_ok) =>
                 /\ ov'.current_title = clean_title(query'.ans[1].title)
                 /\ ov'.next_title = ""
                 /\ ov'.now_start = None /\ ov'.now_end = None
                 /\ ov'.current_tag = None
                 /\ ov'.current_channel = query'.ans[1].channel ]_vars

\* a tick got no usable status while the infobar was up for channel 1 with the
\* schedule's titles: all of it is still there
C40_Witness ==
    /\ cmd = "tick" /\ ~StatusUsable
    /\ ov.infobar_visible /\ ov.current_channel = << "1" >>
    /\ ov.current_title = "A" /\ ov.now_end = << 200 >>

====
